---- MODULE Spec2Model ----
(***************************************************************************)
(* 8086 Visual Emulator: the two-pass assembler (lexer, parser, symbol     *)
(* table pass, encoder) and the fetch/decode/execute engine (registers,    *)
(* memory, ALU, CPU), modelled from the JavaScript sources.                *)
(*                                                                         *)
(* A source text is a sequence of lines and a line is a sequence of        *)
(* tokens: words, and the separators ";" ":" ",".  White space is what     *)
(* separates the tokens of a line.                                         *)
(***************************************************************************)
EXTENDS Integers, Sequences, FiniteSets, TLC

(***************************************************************************)
(* Bounds of the model.                                                    *)
(***************************************************************************)
MaxLines == 2
MaxSteps == 9

(***************************************************************************)
(* JavaScript integer helpers.                                             *)
(***************************************************************************)
Pow2(n) == 2 ^ n

\* x & 0xFF and x & 0xFFFF on an int32 (two's complement: floor modulus)
Mask8(x) == x % 256
Mask16(x) == x % 65536

\* (x << 24) >> 24 on a byte, (x << 16) >> 16 on a 16-bit word
SignExt8(b) == IF Mask8(b) >= 128 THEN Mask8(b) - 256 ELSE Mask8(b)
SignExt16(w) == IF Mask16(w) >= 32768 THEN Mask16(w) - 65536 ELSE Mask16(w)

RECURSIVE BitAnd(_, _, _)
BitAnd(a, b, n) ==
    IF n = 0 THEN 0
    ELSE (IF a % 2 = 1 /\ b % 2 = 1 THEN 1 ELSE 0) + 2 * BitAnd(a \div 2, b \div 2, n - 1)

RECURSIVE BitOr(_, _, _)
BitOr(a, b, n) ==
    IF n = 0 THEN 0
    ELSE (IF a % 2 = 1 \/ b % 2 = 1 THEN 1 ELSE 0) + 2 * BitOr(a \div 2, b \div 2, n - 1)

RECURSIVE BitXor(_, _, _)
BitXor(a, b, n) ==
    IF n = 0 THEN 0
    ELSE (IF a % 2 # b % 2 THEN 1 ELSE 0) + 2 * BitXor(a \div 2, b \div 2, n - 1)

And16(a, b) == BitAnd(Mask16(a), Mask16(b), 16)
Or16(a, b) == BitOr(Mask16(a), Mask16(b), 16)
Xor16(a, b) == BitXor(Mask16(a), Mask16(b), 16)
Bit(x, n) == (x \div Pow2(n)) % 2

RECURSIVE SeqSum(_)
SeqSum(s) == IF s = <<>> THEN 0 ELSE Head(s) + SeqSum(Tail(s))

RECURSIVE Repeat(_, _)
Repeat(x, n) == IF n <= 0 THEN <<>> ELSE <<x>> \o Repeat(x, n - 1)

\* the first index of s holding tok, 0 when there is none (String.indexOf)
RECURSIVE IndexOfFrom(_, _, _)
IndexOfFrom(s, tok, i) ==
    IF i > Len(s) THEN 0
    ELSE IF s[i] = tok THEN i
    ELSE IndexOfFrom(s, tok, i + 1)
IndexOf(s, tok) == IndexOfFrom(s, tok, 1)

(***************************************************************************)
(* Assembler: registers.js, utils.js, instructionMap.js                    *)
(***************************************************************************)
asmRegisters ==
    [AX |-> 0, CX |-> 1, DX |-> 2, BX |-> 3, SP |-> 4, BP |-> 5, SI |-> 6, DI |-> 7]

\* String.toUpperCase on the words of the model's sources
UpperTable ==
    [mov |-> "MOV", ax |-> "AX", add |-> "ADD", hlt |-> "HLT", l1 |-> "L1", jnz |-> "JNZ"]
toUpperCase(tok) == IF tok \in DOMAIN UpperTable THEN UpperTable[tok] ELSE tok

isRegister(op) == toUpperCase(op) \in DOMAIN asmRegisters

\* parseInt on the literals /^-?\d+$/ and /^0X[0-9A-F]+$/i accepts
ImmLiterals ==
    [lit \in {"0", "1", "2", "3", "5", "0X0010", "0XFFFF", "-1", "70000"} |->
        CASE lit = "0" -> 0
          [] lit = "1" -> 1
          [] lit = "2" -> 2
          [] lit = "3" -> 3
          [] lit = "5" -> 5
          [] lit = "0X0010" -> 16
          [] lit = "0XFFFF" -> 65535
          [] lit = "-1" -> -1
          [] lit = "70000" -> 70000]
isImmediate(op) == op \in DOMAIN ImmLiterals
parseInt(op) == ImmLiterals[op]

toLittleEndian16(value) == <<Mask8(value), Mask8(value \div 256)>>

HexDigits == <<"0", "1", "2", "3", "4", "5", "6", "7", "8", "9", "A", "B", "C", "D", "E", "F">>
HexByte(b) == HexDigits[(b \div 16) + 1] \o HexDigits[(b % 16) + 1]
\* map(...).join(' '), joined by halves
RECURSIVE toHexString(_)
toHexString(byteArray) ==
    IF byteArray = <<>> THEN ""
    ELSE IF Len(byteArray) = 1 THEN HexByte(byteArray[1])
    ELSE LET half == Len(byteArray) \div 2
         IN  toHexString(SubSeq(byteArray, 1, half)) \o " "
                \o toHexString(SubSeq(byteArray, half + 1, Len(byteArray)))

\* a field an instructionMap entry does not have reads as undefined
Undefined == -1

Entry(opcode, size, group, relative) ==
    [opcode |-> opcode, size |-> size, group |-> group, relative |-> relative]

instructionMap ==
    [key \in {"MOV_REG_REG", "MOV_REG_IMM", "PUSH_REG", "POP_REG", "XCHG_REG_REG",
              "LEA_REG_MEM", "ADD_REG_REG", "ADD_REG_IMM", "SUB_REG_REG", "SUB_REG_IMM",
              "CMP_REG_REG", "CMP_REG_IMM", "INC_REG", "DEC_REG", "MUL_REG", "DIV_REG",
              "AND_REG_REG", "OR_REG_REG", "XOR_REG_REG", "TEST_REG_REG", "NOT_REG",
              "MOVSB", "LODSB", "STOSB", "CMPSB", "JMP", "CALL", "RET",
              "JE", "JZ", "JNE", "JNZ", "JC", "JNC", "ROL", "ROR", "SHL", "SHR",
              "NOP", "HLT", "CLC", "STC"} |->
        CASE key = "MOV_REG_REG" -> Entry(137, 2, Undefined, FALSE)
          [] key = "MOV_REG_IMM" -> Entry(184, 3, Undefined, FALSE)
          [] key = "PUSH_REG" -> Entry(80, 1, Undefined, FALSE)
          [] key = "POP_REG" -> Entry(88, 1, Undefined, FALSE)
          [] key = "XCHG_REG_REG" -> Entry(135, 2, Undefined, FALSE)
          [] key = "LEA_REG_MEM" -> Entry(141, 2, Undefined, FALSE)
          [] key = "ADD_REG_REG" -> Entry(1, 2, Undefined, FALSE)
          [] key = "ADD_REG_IMM" -> Entry(129, 4, 0, FALSE)
          [] key = "SUB_REG_REG" -> Entry(41, 2, Undefined, FALSE)
          [] key = "SUB_REG_IMM" -> Entry(129, 4, 5, FALSE)
          [] key = "CMP_REG_REG" -> Entry(57, 2, Undefined, FALSE)
          [] key = "CMP_REG_IMM" -> Entry(129, 4, 7, FALSE)
          [] key = "INC_REG" -> Entry(64, 1, Undefined, FALSE)
          [] key = "DEC_REG" -> Entry(72, 1, Undefined, FALSE)
          [] key = "MUL_REG" -> Entry(247, 2, 4, FALSE)
          [] key = "DIV_REG" -> Entry(247, 2, 6, FALSE)
          [] key = "AND_REG_REG" -> Entry(33, 2, Undefined, FALSE)
          [] key = "OR_REG_REG" -> Entry(9, 2, Undefined, FALSE)
          [] key = "XOR_REG_REG" -> Entry(49, 2, Undefined, FALSE)
          [] key = "TEST_REG_REG" -> Entry(133, 2, Undefined, FALSE)
          [] key = "NOT_REG" -> Entry(247, 2, 2, FALSE)
          [] key = "MOVSB" -> Entry(164, 1, Undefined, FALSE)
          [] key = "LODSB" -> Entry(172, 1, Undefined, FALSE)
          [] key = "STOSB" -> Entry(170, 1, Undefined, FALSE)
          [] key = "CMPSB" -> Entry(166, 1, Undefined, FALSE)
          [] key = "JMP" -> Entry(233, 3, Undefined, TRUE)
          [] key = "CALL" -> Entry(232, 3, Undefined, TRUE)
          [] key = "RET" -> Entry(195, 1, Undefined, FALSE)
          [] key = "JE" -> Entry(116, 2, Undefined, TRUE)
          [] key = "JZ" -> Entry(116, 2, Undefined, TRUE)
          [] key = "JNE" -> Entry(117, 2, Undefined, TRUE)
          [] key = "JNZ" -> Entry(117, 2, Undefined, TRUE)
          [] key = "JC" -> Entry(114, 2, Undefined, TRUE)
          [] key = "JNC" -> Entry(115, 2, Undefined, TRUE)
          [] key = "ROL" -> Entry(209, 2, 0, FALSE)
          [] key = "ROR" -> Entry(209, 2, 1, FALSE)
          [] key = "SHL" -> Entry(209, 2, 4, FALSE)
          [] key = "SHR" -> Entry(209, 2, 5, FALSE)
          [] key = "NOP" -> Entry(144, 1, Undefined, FALSE)
          [] key = "HLT" -> Entry(244, 1, Undefined, FALSE)
          [] key = "CLC" -> Entry(248, 1, Undefined, FALSE)
          [] key = "STC" -> Entry(249, 1, Undefined, FALSE)]

(***************************************************************************)
(* Assembler: lexer.js                                                     *)
(***************************************************************************)
Null == "null"
Truthy(x) == x # Null /\ x # ""

\* line.substring(0, line.indexOf(";")) when the line has a comment
stripComment(line) ==
    LET commentIndex == IndexOf(line, ";")
    IN  IF commentIndex # 0 THEN SubSeq(line, 1, commentIndex - 1) ELSE line

NonBlank(line) == Len(line) # 0
UpperLine(line) == [i \in 1..Len(line) |-> toUpperCase(line[i])]

lexer(code) ==
    LET stripped == [i \in 1..Len(code) |-> stripComment(code[i])]
        kept == SelectSeq(stripped, NonBlank)
    IN  [i \in 1..Len(kept) |-> UpperLine(kept[i])]

(***************************************************************************)
(* Assembler: parser.js                                                    *)
(***************************************************************************)
\* String.split(sep) on a line of tokens: the runs of tokens between separators
RECURSIVE Split(_, _)
Split(line, sep) ==
    LET i == IndexOf(line, sep)
    IN  IF i = 0 THEN <<line>>
        ELSE <<SubSeq(line, 1, i - 1)>> \o Split(SubSeq(line, i + 1, Len(line)), sep)

\* the text of a run of tokens, trimmed
RECURSIVE Join(_)
Join(ts) ==
    IF ts = <<>> THEN ""
    ELSE IF Len(ts) = 1 THEN ts[1]
    ELSE ts[1] \o " " \o Join(Tail(ts))

\* tokens that do not start with a \w character
NonWord == {",", ":", ";", "-1"}

RECURSIVE NonEmptyOperands(_)
NonEmptyOperands(groups) ==
    IF groups = <<>> THEN <<>>
    ELSE (IF Head(groups) = <<>> THEN <<>> ELSE <<Join(Head(groups))>>)
            \o NonEmptyOperands(Tail(groups))

ParsedLine(label, mnemonic, operands) ==
    [label |-> label, mnemonic |-> mnemonic, operands |-> operands]

parseLine(line0) ==
    LET hasColon == IndexOf(line0, ":") # 0
        parts == Split(line0, ":")
        label == IF hasColon THEN Join(parts[1]) ELSE Null
        line == IF hasColon THEN parts[2] ELSE line0
        match == line # <<>> /\ line[1] \notin NonWord
    IN  IF hasColon /\ line = <<>> THEN ParsedLine(label, Null, <<>>)
        ELSE IF match
             THEN ParsedLine(label, toUpperCase(line[1]),
                             NonEmptyOperands(Split(Tail(line), ",")))
             ELSE ParsedLine(label, Null, <<>>)

parser(lines) == [i \in 1..Len(lines) |-> parseLine(lines[i])]

(***************************************************************************)
(* Assembler: detectInstructionKey (symbolTable.js and pass2.js)           *)
(***************************************************************************)
detectInstructionKey(mnemonic, operands) ==
    IF Len(operands) = 2 /\ isRegister(operands[1]) /\ isRegister(operands[2])
    THEN mnemonic \o "_REG_REG"
    ELSE IF Len(operands) = 2 /\ isRegister(operands[1]) /\ isImmediate(operands[2])
    THEN mnemonic \o "_REG_IMM"
    ELSE IF Len(operands) = 1 /\ isRegister(operands[1])
    THEN mnemonic \o "_REG"
    ELSE mnemonic

\* instructionMap[key], undefined when the table has no such key
HasEntry(key) == key \in DOMAIN instructionMap

\* String.endsWith on the keys the model's sources produce
Stems ==
    {"MOV", "PUSH", "POP", "XCHG", "LEA", "ADD", "SUB", "CMP", "INC", "DEC", "MUL",
     "DIV", "AND", "OR", "XOR", "TEST", "NOT", "ROL", "XYZ"}
endsWith(key, suffix) == \E w \in Stems : key = w \o suffix

(***************************************************************************)
(* Assembler: symbolTable.js, one iteration of buildSymbolTable's loop     *)
(***************************************************************************)
Put(table, k, v) == [x \in DOMAIN table \cup {k} |-> IF x = k THEN v ELSE table[x]]

NoError == <<>>

\* a loop body that lets a form the table lacks pass as a line of no bytes
pass1LineLenient(line, table, off) ==
    LET table1 == IF Truthy(line.label) THEN Put(table, line.label, off) ELSE table
        key == detectInstructionKey(line.mnemonic, line.operands)
    IN  [symbolTable |-> table1,
         offset |-> off + (IF Truthy(line.mnemonic) /\ HasEntry(key)
                           THEN instructionMap[key].size ELSE 0),
         error |-> NoError]

\* a loop body that records a label after counting its line's instruction
pass1LineCountsOwn(line, table, off) ==
    LET key == detectInstructionKey(line.mnemonic, line.operands)
        known == Truthy(line.mnemonic) /\ HasEntry(key)
        off1 == IF known THEN off + instructionMap[key].size ELSE off
    IN  [symbolTable |-> IF Truthy(line.label) THEN Put(table, line.label, off1) ELSE table,
         offset |-> off1,
         error |-> IF Truthy(line.mnemonic) /\ ~known
                   THEN <<"Unknown instruction form: " \o key>> ELSE NoError]

pass1Line(line, table, off) ==
    LET table1 == IF Truthy(line.label) THEN Put(table, line.label, off) ELSE table
        key == detectInstructionKey(line.mnemonic, line.operands)
    IN  IF ~Truthy(line.mnemonic)
        THEN [symbolTable |-> table1, offset |-> off, error |-> NoError]
        ELSE IF ~HasEntry(key)
        THEN [symbolTable |-> table1, offset |-> off,
              error |-> <<"Unknown instruction form: " \o key>>]
        ELSE [symbolTable |-> table1, offset |-> off + instructionMap[key].size,
              error |-> NoError]

(***************************************************************************)
(* Assembler: pass2.js, one iteration of pass2's loop                      *)
(***************************************************************************)
\* undefined converts to 0 under << and |
JsInt(x) == IF x = Undefined THEN 0 ELSE x

buildModRM(reg, rm) == 192 + JsInt(reg) * 8 + JsInt(rm)

RegIndex(op) == IF op \in DOMAIN asmRegisters THEN asmRegisters[op] ELSE Undefined
Operand(operands, i) == IF i <= Len(operands) THEN operands[i] ELSE Null

\* the bytes pushed for a line whose key ends with _REG_REG
EncodeRegReg(entry, operands) ==
    <<entry.opcode, buildModRM(RegIndex(Operand(operands, 2)), RegIndex(Operand(operands, 1)))>>

\* the bytes pushed for a line whose key ends with _REG_IMM
EncodeRegImm(entry, mnemonic, operands) ==
    LET val == IF isImmediate(Operand(operands, 2)) THEN parseInt(operands[2]) ELSE 0
    IN  (IF mnemonic = "MOV"
         THEN <<entry.opcode + JsInt(RegIndex(Operand(operands, 1)))>>
         ELSE <<entry.opcode, buildModRM(entry.group, RegIndex(Operand(operands, 1)))>>)
        \o toLittleEndian16(val)

\* a displacement taken from the jump's own offset, not from the next instruction's
RelOffsetFromJump(entry, target, curOffset) == target - curOffset

\* nextIP and relOffset of a relative jump
RelOffset(entry, target, curOffset) == target - (curOffset + entry.size)

\* the bytes pushed for a relative jump whose displacement is in range
EncodeRelative(entry, relOffset) ==
    IF entry.size = 2 THEN <<entry.opcode, Mask8(relOffset)>>
    ELSE <<entry.opcode>> \o toLittleEndian16(relOffset)

\* the bytes pushed by the final else branch
EncodePlain(entry, operands) == <<entry.opcode>>

Pass2Result(bytes, size, err) == [bytes |-> bytes, size |-> size, error |-> err]

pass2Line(line, table, curOffset) ==
    LET mnemonic == line.mnemonic
        operands == line.operands
        key == detectInstructionKey(mnemonic, operands)
        entry == instructionMap[key]
        label == Operand(operands, 1)
        relOffset == RelOffset(entry, table[label], curOffset)
    IN  IF ~Truthy(mnemonic) THEN Pass2Result(<<>>, 0, NoError)
        ELSE IF ~HasEntry(key)
        THEN Pass2Result(<<>>, 0,
                <<"Line " \o ToString(curOffset) \o ": Unsupported instruction " \o key>>)
        ELSE IF endsWith(key, "_REG_REG")
        THEN Pass2Result(EncodeRegReg(entry, operands), entry.size, NoError)
        ELSE IF endsWith(key, "_REG_IMM")
        THEN Pass2Result(EncodeRegImm(entry, mnemonic, operands), entry.size, NoError)
        ELSE IF entry.relative
        THEN IF label \notin DOMAIN table
             THEN Pass2Result(<<>>, 0,
                     <<"Undefined label: " \o (IF label = Null THEN "undefined" ELSE label)>>)
             ELSE IF entry.size = 2 /\ (relOffset < -128 \/ relOffset > 127)
             THEN Pass2Result(<<entry.opcode>>, 0,
                     <<"Jump to " \o label \o " is too far",
                       " (" \o ToString(relOffset) \o " bytes)">>)
             ELSE Pass2Result(EncodeRelative(entry, relOffset), entry.size, NoError)
        ELSE Pass2Result(EncodePlain(entry, operands), entry.size, NoError)

\* new Uint8Array(machineCode)
Uint8Array(bytes) == [i \in 1..Len(bytes) |-> Mask8(bytes[i])]

(***************************************************************************)
(* Engine: registers.js                                                    *)
(***************************************************************************)
\* the interrupt-enable flag IF is named IFL: IF is a keyword
FLAGS == [CF |-> 0, PF |-> 2, AF |-> 4, ZF |-> 6, SF |-> 7, TF |-> 8, IFL |-> 9,
          DF |-> 10, OF |-> 11]

RegNames16 == {"AX", "CX", "DX", "BX", "SP", "BP", "SI", "DI",
               "ES", "CS", "SS", "DS", "IP", "FLAGS"}

\* new Registers(): a zeroed 28-byte buffer
NewRegisters == [n \in RegNames16 |-> 0]

get16(r, name) == r[name]
set16(r, name, value) == [r EXCEPT ![name] = Mask16(value)]

\* get8 of a low half (AL, CL, DL, BL) and of a high half (AH, CH, DH, BH)
get8Low(r, name16) == r[name16] % 256
get8High(r, name16) == r[name16] \div 256

getFlag(r, flagBit) == Bit(get16(r, "FLAGS"), flagBit)

\* a setFlag that writes the bit above the one it is given
setFlagNextBit(r, flagBit, value) ==
    LET currentFlags == get16(r, "FLAGS")
        cleared == currentFlags - Bit(currentFlags, flagBit + 1) * Pow2(flagBit + 1)
    IN  set16(r, "FLAGS", IF value THEN cleared + Pow2(flagBit + 1) ELSE cleared)

setFlag(r, flagBit, value) ==
    LET currentFlags == get16(r, "FLAGS")
        cleared == currentFlags - Bit(currentFlags, flagBit) * Pow2(flagBit)
    IN  set16(r, "FLAGS", IF value THEN cleared + Pow2(flagBit) ELSE cleared)

\* a run of setFlag calls, in order
RECURSIVE setFlags(_, _)
setFlags(r, sets) ==
    IF sets = <<>> THEN r
    ELSE setFlags(setFlag(r, Head(sets)[1], Head(sets)[2]), Tail(sets))

triggerInterrupt(r, type) == set16(r, "IP", get16(r, "IP") - 1)

(***************************************************************************)
(* Engine: memory.js.  The 1 MiB array is the function from the addresses  *)
(* holding a non-zero byte to that byte; every other address reads 0.      *)
(***************************************************************************)
MemSize == 1048576
NewMemory == <<>>

\* an address that is not masked to 20 bits
getPhysicalAddressUnmasked(segment, offset) == (Mask16(segment) * 16) + Mask16(offset)

\* an address that takes the segment as it is, without the shift by 4
getPhysicalAddressFlat(segment, offset) == (Mask16(segment) + Mask16(offset)) % MemSize

getPhysicalAddress(segment, offset) == ((Mask16(segment) * 16) + Mask16(offset)) % MemSize

MemGet(m, a) == IF a \in DOMAIN m THEN m[a] ELSE 0
MemSet(m, a, v) ==
    IF v = 0 THEN [x \in DOMAIN m \ {a} |-> m[x]]
    ELSE [x \in DOMAIN m \cup {a} |-> IF x = a THEN v ELSE m[x]]

readByte(m, seg, off) == MemGet(m, getPhysicalAddress(seg, off))
writeByte(m, seg, off, value) == MemSet(m, getPhysicalAddress(seg, off), Mask8(value))

(***************************************************************************)
(* Engine: alu.js.  Each operation returns the registers after its flag    *)
(* updates (r) and its result (v).                                         *)
(***************************************************************************)
Alu(r, v) == [r |-> r, v |-> v]

RECURSIVE PopCount(_, _)
PopCount(byte, n) == IF n = 0 THEN 0 ELSE (byte % 2) + PopCount(byte \div 2, n - 1)
\* PF: the low byte of the result has an even number of 1 bits
Parity(result) == PopCount(result % 256, 8) % 2 = 0

\* add16 setting ZF, SF and CF only
add16Basic(r, val1, val2) ==
    Alu(setFlags(r, << <<FLAGS.ZF, Mask16(val1 + val2) = 0>>,
                       <<FLAGS.SF, And16(Mask16(val1 + val2), 32768) # 0>>,
                       <<FLAGS.CF, val1 + val2 > 65535>> >>),
        Mask16(val1 + val2))

add16(r, val1, val2) ==
    LET full == val1 + val2
        result == Mask16(full)
    IN  Alu(setFlags(r, << <<FLAGS.ZF, result = 0>>,
                           <<FLAGS.SF, And16(result, 32768) # 0>>,
                           <<FLAGS.CF, full > 65535>>,
                           <<FLAGS.AF, (val1 % 16) + (val2 % 16) > 15>>,
                           <<FLAGS.OF, And16(And16(Xor16(val1, result), Xor16(val2, result)),
                                             32768) # 0>>,
                           <<FLAGS.PF, Parity(result)>> >>),
            result)

\* sub16 setting ZF, SF and CF only
sub16Basic(r, val1, val2) ==
    Alu(setFlags(r, << <<FLAGS.ZF, Mask16(val1 - val2) = 0>>,
                       <<FLAGS.SF, And16(Mask16(val1 - val2), 32768) # 0>>,
                       <<FLAGS.CF, val1 < val2>> >>),
        Mask16(val1 - val2))

sub16(r, val1, val2) ==
    LET full == val1 - val2
        result == Mask16(full)
    IN  Alu(setFlags(r, << <<FLAGS.ZF, result = 0>>,
                           <<FLAGS.SF, And16(result, 32768) # 0>>,
                           <<FLAGS.CF, val1 < val2>>,
                           <<FLAGS.AF, (val1 % 16) < (val2 % 16)>>,
                           <<FLAGS.OF, And16(And16(Xor16(val1, val2), Xor16(val1, result)),
                                             32768) # 0>>,
                           <<FLAGS.PF, Parity(result)>> >>),
            result)

\* ax * multiplier of two 16-bit words, as its low and high 16-bit words
MulLow(a, b) == (((((a \div 256) * b) % 256) * 256) + ((a % 256) * b)) % 65536
MulHigh(a, b) ==
    (((a \div 256) * b) \div 256) + ((((((a \div 256) * b) % 256) * 256) + ((a % 256) * b)) \div 65536)

\* mul16 that also sets ZF from the low word
mul16ZeroFlag(r, multiplier) ==
    Alu(setFlags(set16(set16(r, "AX", MulLow(get16(r, "AX"), multiplier)),
                       "DX", MulHigh(get16(r, "AX"), multiplier)),
                 << <<FLAGS.CF, MulHigh(get16(r, "AX"), multiplier) # 0>>,
                    <<FLAGS.OF, MulHigh(get16(r, "AX"), multiplier) # 0>>,
                    <<FLAGS.ZF, MulLow(get16(r, "AX"), multiplier) = 0>> >>),
        0)

mul16(r, multiplier) ==
    LET ax == get16(r, "AX")
        lowWord == MulLow(ax, multiplier)
        highWord == MulHigh(ax, multiplier)
        hasCarry == highWord # 0
        r1 == set16(set16(r, "AX", lowWord), "DX", highWord)
    IN  Alu(setFlags(r1, << <<FLAGS.CF, hasCarry>>, <<FLAGS.OF, hasCarry>> >>), 0)

\* ((dx << 16) >>> 0) | ax  and  (dx << 16) | ax : an int32
Dividend32(dx, ax) == (IF dx >= 32768 THEN dx - 65536 ELSE dx) * 65536 + ax

\* the JavaScript % of a (an int32) by b # 0: the sign of a
JsRem(a, b) ==
    LET d == IF b < 0 THEN 0 - b ELSE b
        m == a % d
    IN  IF a >= 0 \/ m = 0 THEN m ELSE m - d

\* Math.trunc(a / b) for an int32 a and b # 0
JsTruncDiv(a, b) == (a - JsRem(a, b)) \div b

div16(r, divisor) ==
    LET dx == get16(r, "DX")
        ax == get16(r, "AX")
        dividend == Dividend32(dx, ax)
        quotient == dividend \div divisor
        remainder == JsRem(dividend, divisor)
    IN  IF divisor = 0 THEN [r |-> triggerInterrupt(r, 0), v |-> 0, thrown |-> FALSE]
        ELSE IF quotient > 65535 THEN [r |-> r, v |-> 0, thrown |-> TRUE]
        ELSE [r |-> set16(set16(r, "AX", quotient), "DX", remainder), v |-> 0,
              thrown |-> FALSE]

\* inc16 as an addition of 1, carry included
inc16ByAdd(r, val) == add16(r, val, 1)

inc16(r, val) ==
    LET result == Mask16(val + 1)
    IN  Alu(setFlags(r, << <<FLAGS.ZF, result = 0>>,
                           <<FLAGS.SF, And16(result, 32768) # 0>>,
                           <<FLAGS.OF, val = 32767>>,
                           <<FLAGS.AF, (val % 16) + 1 > 15>>,
                           <<FLAGS.PF, Parity(result)>> >>),
            result)

dec16(r, val) ==
    LET result == Mask16(val - 1)
    IN  Alu(setFlags(r, << <<FLAGS.ZF, result = 0>>,
                           <<FLAGS.SF, And16(result, 32768) # 0>>,
                           <<FLAGS.OF, val = 32768>>,
                           <<FLAGS.AF, (val % 16) = 0>>,
                           <<FLAGS.PF, Parity(result)>> >>),
            result)

cmp16(r, val1, val2) == Alu(sub16(r, val1, val2).r, Undefined)

neg16(r, val) ==
    LET result == Mask16(0 - val)
    IN  Alu(setFlags(r, << <<FLAGS.CF, val # 0>>,
                           <<FLAGS.ZF, result = 0>>,
                           <<FLAGS.SF, And16(result, 32768) # 0>>,
                           <<FLAGS.AF, (val % 16) # 0>>,
                           <<FLAGS.OF, val = 32768>>,
                           <<FLAGS.PF, Parity(result)>> >>),
            result)

imul16(r, multiplier) ==
    LET ax == SignExt16(get16(r, "AX"))
        m == SignExt16(multiplier)
        result == ax * m
        fits == result = SignExt16(result)
        r1 == set16(set16(r, "AX", Mask16(result)), "DX", Mask16(result \div 65536))
    IN  Alu(setFlags(r1, << <<FLAGS.CF, ~fits>>, <<FLAGS.OF, ~fits>> >>), 0)

\* an IDIV that stores the low words of quotient and remainder whatever the quotient
idiv16Truncating(r, divisor) ==
    LET dividend == Dividend32(get16(r, "DX"), get16(r, "AX"))
        d == SignExt16(divisor)
    IN  IF divisor = 0 THEN Alu(triggerInterrupt(r, 0), 0)
        ELSE IF dividend = 0 - 2147483647 - 1 /\ d = 0 - 1
        THEN Alu(set16(set16(r, "AX", 0), "DX", 0), 0)
        ELSE Alu(set16(set16(r, "AX", Mask16(JsTruncDiv(dividend, d))),
                       "DX", Mask16(JsRem(dividend, d))), 0)

idiv16(r, divisor) ==
    LET dx == get16(r, "DX")
        ax == get16(r, "AX")
        dividend == Dividend32(dx, ax)
        d == SignExt16(divisor)
        \* -2^31 / -1 is the one quotient that is no int32
        tooBig == dividend = 0 - 2147483647 - 1 /\ d = 0 - 1
        quotient == JsTruncDiv(dividend, d)
        remainder == JsRem(dividend, d)
    IN  IF divisor = 0 THEN Alu(triggerInterrupt(r, 0), 0)
        ELSE IF tooBig \/ quotient > 32767 \/ quotient < 0 - 32768
        THEN Alu(triggerInterrupt(r, 0), 0)
        ELSE Alu(set16(set16(r, "AX", Mask16(quotient)), "DX", Mask16(remainder)), 0)

_updateLogicalFlags(r, result) ==
    setFlags(r, << <<FLAGS.ZF, result = 0>>,
                   <<FLAGS.SF, And16(result, 32768) # 0>>,
                   <<FLAGS.PF, Parity(result)>> >>)

and16(r, val1, val2) == Alu(_updateLogicalFlags(r, And16(val1, val2)), And16(val1, val2))
or16(r, val1, val2) == Alu(_updateLogicalFlags(r, Or16(val1, val2)), Or16(val1, val2))
xor16(r, val1, val2) == Alu(_updateLogicalFlags(r, Xor16(val1, val2)), Xor16(val1, val2))
\* test16 has no return statement: the call's value is undefined
test16(r, val1, val2) == Alu(_updateLogicalFlags(r, And16(val1, val2)), Undefined)
not16(r, val) == Alu(r, 65535 - Mask16(val))

\* count iterations of shl16's loop: <<result, lastBitOut>>.  Once result and
\* lastBitOut are both 0 an iteration changes neither, so the rest of the run
\* is skipped; sar16's loop also rests at <<-1, 1>>.  A rotate's loop returns
\* to the same value and CF every 16 iterations (17 through CF), so a longer
\* run is the run of the remainder.
RECURSIVE ShlLoop(_, _, _)
ShlLoop(result, lastBitOut, count) ==
    IF count = 0 \/ (result = 0 /\ lastBitOut = 0) THEN <<result, lastBitOut>>
    ELSE ShlLoop(Mask16(result * 2), Bit(result, 15), count - 1)

\* shl16 with CF from the first bit shifted out, not the last
shl16CarryFirst(r, val, count) ==
    IF count = 0 THEN Alu(r, val)
    ELSE Alu(_updateLogicalFlags(setFlag(r, FLAGS.CF, Bit(val, 15) = 1),
                                 ShlLoop(val, 0, count)[1]),
             ShlLoop(val, 0, count)[1])

shl16(r, val, count) ==
    LET out == ShlLoop(val, 0, count)
    IN  IF count = 0 THEN Alu(r, val)
        ELSE Alu(_updateLogicalFlags(setFlag(r, FLAGS.CF, out[2] = 1), out[1]), out[1])

RECURSIVE ShrLoop(_, _, _)
ShrLoop(result, lastBitOut, count) ==
    IF count = 0 \/ (result = 0 /\ lastBitOut = 0) THEN <<result, lastBitOut>>
    ELSE ShrLoop(result \div 2, result % 2, count - 1)

shr16(r, val, count) ==
    LET out == ShrLoop(val, 0, count)
    IN  IF count = 0 THEN Alu(r, val)
        ELSE Alu(_updateLogicalFlags(setFlag(r, FLAGS.CF, out[2] = 1), out[1]), out[1])

\* result >> 1 on the sign-extended value: the floor of the half
RECURSIVE SarLoop(_, _, _)
SarLoop(result, lastBitOut, count) ==
    IF count = 0 \/ (result = 0 /\ lastBitOut = 0) \/ (result = -1 /\ lastBitOut = 1)
    THEN <<result, lastBitOut>>
    ELSE SarLoop(result \div 2, result % 2, count - 1)

\* sar16 filling the vacated bits with 0
sar16ZeroFill(r, val, count) == shr16(r, val, count)

\* sar16 without the early return for a count of 0
sar16Always(r, val, count) ==
    Alu(_updateLogicalFlags(
            setFlags(r, << <<FLAGS.CF, SarLoop(SignExt16(val), 0, count)[2] = 1>>,
                           <<FLAGS.OF, FALSE>> >>),
            Mask16(SarLoop(SignExt16(val), 0, count)[1])),
        Mask16(SarLoop(SignExt16(val), 0, count)[1]))

sar16(r, val, count) ==
    LET out == SarLoop(SignExt16(val), 0, count)
        result == Mask16(out[1])
    IN  IF count = 0 THEN Alu(r, Mask16(val))
        ELSE Alu(_updateLogicalFlags(
                     setFlags(r, << <<FLAGS.CF, out[2] = 1>>, <<FLAGS.OF, FALSE>> >>),
                     result),
                 result)

RECURSIVE rol16(_, _, _)
rol16(r, val, count) ==
    IF count = 0 THEN Alu(r, val)
    ELSE IF count > 16 THEN rol16(r, val, count - 16 * ((count - 1) \div 16))
    ELSE rol16(setFlag(r, FLAGS.CF, Bit(val, 15) = 1), Mask16(val * 2 + Bit(val, 15)), count - 1)

RECURSIVE ror16(_, _, _)
ror16(r, val, count) ==
    IF count = 0 THEN Alu(r, val)
    ELSE IF count > 16 THEN ror16(r, val, count - 16 * ((count - 1) \div 16))
    ELSE ror16(setFlag(r, FLAGS.CF, val % 2 = 1), (val \div 2) + (val % 2) * 32768, count - 1)

\* rcl16 and rcr16 are called by the CPU and by the ALU's tests; no ALU under
\* src/ defines them.  A rotate through carry of the 17 bits CF:value.
RECURSIVE rcl16(_, _, _)
rcl16(r, val, count) ==
    IF count = 0 THEN Alu(r, val)
    ELSE IF count >= 17 THEN rcl16(r, val, count % 17)
    ELSE rcl16(setFlag(r, FLAGS.CF, Bit(val, 15) = 1), Mask16(val * 2 + getFlag(r, FLAGS.CF)), count - 1)

RECURSIVE rcr16(_, _, _)
rcr16(r, val, count) ==
    IF count = 0 THEN Alu(r, val)
    ELSE IF count >= 17 THEN rcr16(r, val, count % 17)
    ELSE rcr16(setFlag(r, FLAGS.CF, val % 2 = 1), (val \div 2) + getFlag(r, FLAGS.CF) * 32768, count - 1)

(***************************************************************************)
(* Engine: cpu.js.  A CPU is its registers, its memory, halted, and        *)
(* thrown: whether the call under way has thrown an exception.             *)
(***************************************************************************)
Cpu(r, m, h, t) == [registers |-> r, memory |-> m, halted |-> h, thrown |-> t]

\* new CPU()
NewCpu == Cpu(set16(set16(NewRegisters, "CS", 0), "IP", 0), NewMemory, FALSE, FALSE)

WithRegs(c, r) == [c EXCEPT !.registers = r]
WithReg(c, name, value) == [c EXCEPT !.registers = set16(@, name, value)]
Fetched(c, v) == [c |-> c, v |-> v]

fetchByte(c) ==
    LET cs == get16(c.registers, "CS")
        ip == get16(c.registers, "IP")
    IN  Fetched(WithReg(c, "IP", ip + 1), readByte(c.memory, cs, ip))

\* a word fetched high byte first
fetchWordBigEndian(c) ==
    LET high == fetchByte(c)
        low == fetchByte(high.c)
    IN  Fetched(low.c, high.v * 256 + low.v)

fetchWord(c) ==
    LET low == fetchByte(c)
        high == fetchByte(low.c)
    IN  Fetched(high.c, high.v * 256 + low.v)

\* the little-endian word at seg:offset and seg:offset+1
readWord(c, segVal, offset) ==
    readByte(c.memory, segVal, offset + 1) * 256 + readByte(c.memory, segVal, offset)

writeWord(c, segVal, offset, value) ==
    [c EXCEPT !.memory = writeByte(writeByte(@, segVal, offset, Mask8(value)),
                                   segVal, offset + 1, Mask8(value \div 256))]

regNames == <<"AX", "CX", "DX", "BX", "SP", "BP", "SI", "DI">>

\* the base of the r/m table, the direct address aside
EaBase(r, mod, rm) ==
    CASE rm = 0 -> get16(r, "BX") + get16(r, "SI")
      [] rm = 1 -> get16(r, "BX") + get16(r, "DI")
      [] rm = 2 -> get16(r, "BP") + get16(r, "SI")
      [] rm = 3 -> get16(r, "BP") + get16(r, "DI")
      [] rm = 4 -> get16(r, "SI")
      [] rm = 5 -> get16(r, "DI")
      [] rm = 6 -> get16(r, "BP")
      [] rm = 7 -> get16(r, "BX")

EaSegment(mod, rm) == IF rm = 2 \/ rm = 3 \/ (rm = 6 /\ mod # 0) THEN "SS" ELSE "DS"

EaResult(c, ea, segment) == [c |-> c, offset |-> Mask16(ea), segment |-> segment]

\* the displacement fetched after the base: disp is a fetch's result
EaDisp8Unsigned(disp, base, segment) == EaResult(disp.c, base + Mask8(disp.v), segment)
EaDisp8(disp, base, segment) == EaResult(disp.c, base + SignExt8(disp.v), segment)
EaDisp16(disp, base, segment) == EaResult(disp.c, base + disp.v, segment)

EaDisplace(c, mod, base, segment) ==
    CASE mod = 1 -> EaDisp8(fetchByte(c), base, segment)
      [] mod = 2 -> EaDisp16(fetchWord(c), base, segment)
      [] OTHER -> EaResult(c, base, segment)

\* rm = 6 with mod = 0: the base is the word fetched
EaDirect(fw, mod, rm) == EaDisplace(fw.c, mod, fw.v, EaSegment(mod, rm))

resolveEffectiveAddress(c, mod, rm) ==
    IF rm = 6 /\ mod = 0 THEN EaDirect(fetchWord(c), mod, rm)
    ELSE EaDisplace(c, mod, EaBase(c.registers, mod, rm), EaSegment(mod, rm))

\* push16 with SP stopping at 0 instead of wrapping
push16Saturating(c, value) ==
    LET sp == IF get16(c.registers, "SP") < 2 THEN 0 ELSE get16(c.registers, "SP") - 2
        ss == get16(c.registers, "SS")
        c1 == WithReg(c, "SP", sp)
    IN  [c1 EXCEPT !.memory = writeByte(writeByte(@, ss, sp, Mask8(value)),
                                        ss, sp + 1, Mask8(value \div 256))]

push16(c, value) ==
    LET sp == Mask16(get16(c.registers, "SP") - 2)
        ss == get16(c.registers, "SS")
        c1 == WithReg(c, "SP", sp)
    IN  [c1 EXCEPT !.memory = writeByte(writeByte(@, ss, sp, Mask8(value)),
                                        ss, sp + 1, Mask8(value \div 256))]

pop16(c) ==
    LET sp == get16(c.registers, "SP")
        ss == get16(c.registers, "SS")
        low == readByte(c.memory, ss, sp)
        high == readByte(c.memory, ss, sp + 1)
    IN  Fetched(WithReg(c, "SP", Mask16(sp + 2)), high * 256 + low)

_writeBack16(c, mod, regName, offset, segment, value) ==
    IF mod = 3 THEN WithReg(c, regName, value)
    ELSE writeWord(c, get16(c.registers, segment), offset, value)

\* a ModR/M byte decoded and its r/m operand read: the first half of the
\* 0xF7, 0xD1, 0xD3, 0x8B, 0x8D and 0x87 cases
OperandReg(c, modRM) ==
    [c |-> c, mod |-> 3, reg |-> (modRM \div 8) % 8, rm |-> modRM % 8,
     offset |-> 0, segment |-> "DS",
     operand |-> get16(c.registers, regNames[(modRM % 8) + 1])]

OperandMem(ea, modRM) ==
    [c |-> ea.c, mod |-> (modRM \div 64) % 4, reg |-> (modRM \div 8) % 8, rm |-> modRM % 8,
     offset |-> ea.offset, segment |-> ea.segment,
     operand |-> readWord(ea.c, get16(ea.c.registers, ea.segment), ea.offset)]

DecodeModRM(c, modRM) ==
    IF (modRM \div 64) % 4 = 3 THEN OperandReg(c, modRM)
    ELSE OperandMem(resolveEffectiveAddress(c, (modRM \div 64) % 4, modRM % 8), modRM)

FetchedModRM(fm) == DecodeModRM(fm.c, fm.v)

fetchOperand(c) == FetchedModRM(fetchByte(c))

\* registers and flags from an ALU result, then the write back of its value
writeBackAlu(fo, a) ==
    _writeBack16(WithRegs(fo.c, a.r), fo.mod, regNames[fo.rm + 1], fo.offset, fo.segment, a.v)

\* case 0xD1 and 0xD3 after the operand is read
\* the dispatch with ROL and ROR taken as the rotates through CF
ShiftGroup16CarryRotate(fo, count) ==
    CASE fo.reg = 0 \/ fo.reg = 2 -> writeBackAlu(fo, rcl16(fo.c.registers, fo.operand, count))
      [] fo.reg = 1 \/ fo.reg = 3 -> writeBackAlu(fo, rcr16(fo.c.registers, fo.operand, count))
      [] fo.reg = 4 -> writeBackAlu(fo, shl16(fo.c.registers, fo.operand, count))
      [] fo.reg = 5 -> writeBackAlu(fo, shr16(fo.c.registers, fo.operand, count))
      [] fo.reg = 7 -> writeBackAlu(fo, sar16(fo.c.registers, fo.operand, count))
      [] OTHER -> fo.c

\* the dispatch with RCL and RCR taken as the rotates that leave CF out
ShiftGroup16RotateOnly(fo, count) ==
    CASE fo.reg = 0 \/ fo.reg = 2 -> writeBackAlu(fo, rol16(fo.c.registers, fo.operand, count))
      [] fo.reg = 1 \/ fo.reg = 3 -> writeBackAlu(fo, ror16(fo.c.registers, fo.operand, count))
      [] fo.reg = 4 -> writeBackAlu(fo, shl16(fo.c.registers, fo.operand, count))
      [] fo.reg = 5 -> writeBackAlu(fo, shr16(fo.c.registers, fo.operand, count))
      [] fo.reg = 7 -> writeBackAlu(fo, sar16(fo.c.registers, fo.operand, count))
      [] OTHER -> fo.c

ShiftGroup16(fo, count) ==
    CASE fo.reg = 0 -> writeBackAlu(fo, rol16(fo.c.registers, fo.operand, count))
      [] fo.reg = 1 -> writeBackAlu(fo, ror16(fo.c.registers, fo.operand, count))
      [] fo.reg = 2 -> writeBackAlu(fo, rcl16(fo.c.registers, fo.operand, count))
      [] fo.reg = 3 -> writeBackAlu(fo, rcr16(fo.c.registers, fo.operand, count))
      [] fo.reg = 4 -> writeBackAlu(fo, shl16(fo.c.registers, fo.operand, count))
      [] fo.reg = 5 -> writeBackAlu(fo, shr16(fo.c.registers, fo.operand, count))
      [] fo.reg = 7 -> writeBackAlu(fo, sar16(fo.c.registers, fo.operand, count))
      [] OTHER -> fo.c

\* case 0xD0 .. 0xD3: the shift and rotate group
executeShiftGroup(c, opcode) ==
    IF opcode = 209 \/ opcode = 211
    THEN ShiftGroup16(fetchOperand(c),
                      IF opcode = 209 THEN 1 ELSE get8Low(c.registers, "CX"))
    ELSE fetchByte(c).c

\* extension 0 (TEST r/m16, imm16) after the immediate is fetched
GroupF7Test(imm, operand) == WithRegs(imm.c, test16(imm.c.registers, operand, imm.v).r)

\* extension 6 (DIV) after div16 returned or threw
GroupF7Div(c, dv) == [WithRegs(c, dv.r) EXCEPT !.thrown = dv.thrown]

\* case 0xF7 after the operand is read
GroupF7(fo) ==
    CASE fo.reg = 0 -> GroupF7Test(fetchWord(fo.c), fo.operand)
      [] fo.reg = 2 -> writeBackAlu(fo, not16(fo.c.registers, fo.operand))
      [] fo.reg = 3 -> writeBackAlu(fo, neg16(fo.c.registers, fo.operand))
      [] fo.reg = 4 -> WithRegs(fo.c, mul16(fo.c.registers, fo.operand).r)
      [] fo.reg = 5 -> WithRegs(fo.c, imul16(fo.c.registers, fo.operand).r)
      [] fo.reg = 6 -> GroupF7Div(fo.c, div16(fo.c.registers, fo.operand))
      [] fo.reg = 7 -> WithRegs(fo.c, idiv16(fo.c.registers, fo.operand).r)
      [] OTHER -> fo.c

\* case 0xF7: TEST, NOT, NEG, MUL, IMUL, DIV, IDIV
executeGroupF7(c) == GroupF7(fetchOperand(c))

\* the ALU result of an AX, imm16 case stored: CMP keeps AX
AxImmStore(c, a, kind) ==
    IF kind = "CMP" THEN WithRegs(c, a.r) ELSE WithReg(WithRegs(c, a.r), "AX", a.v)

AxImmAlu(r, ax, imm, kind) ==
    CASE kind = "ADD" -> add16(r, ax, imm)
      [] kind = "SUB" -> sub16(r, ax, imm)
      [] kind = "CMP" -> cmp16(r, ax, imm)
      [] kind = "AND" -> and16(r, ax, imm)
      [] kind = "OR" -> or16(r, ax, imm)
      [] kind = "XOR" -> xor16(r, ax, imm)

AxImmFetched(imm, ax, kind) == AxImmStore(imm.c, AxImmAlu(imm.c.registers, ax, imm.v, kind), kind)

\* an AX, imm16 case: the ALU operation on AX and the fetched word
executeAxImm(c, kind) == AxImmFetched(fetchWord(c), get16(c.registers, "AX"), kind)

\* a short conditional jump that adds the displacement byte unsigned
executeJccUnsigned(c, flagBit, wanted) ==
    IF getFlag(fetchByte(c).c.registers, flagBit) = wanted
    THEN WithReg(fetchByte(c).c, "IP",
                 get16(fetchByte(c).c.registers, "IP") + fetchByte(c).v)
    ELSE fetchByte(c).c

\* a short conditional jump: taken says whether the condition holds
executeJcc(c, flagBit, wanted) ==
    LET off == fetchByte(c)
        currentIP == get16(off.c.registers, "IP")
    IN  IF getFlag(off.c.registers, flagBit) = wanted
        THEN WithReg(off.c, "IP", currentIP + SignExt8(off.v))
        ELSE off.c

\* case 0x8B (MOV reg16, r/m16)
MovRegMem(fo) == WithReg(fo.c, regNames[fo.reg + 1], fo.operand)
executeMovRegMem(c) == MovRegMem(fetchOperand(c))

\* case 0x8D (LEA)
\* an LEA that loads the word at the effective address, as MOV does
LeaLoad(fo) ==
    IF fo.mod # 3 THEN WithReg(fo.c, regNames[fo.reg + 1], fo.operand) ELSE fo.c

Lea(fo) == IF fo.mod # 3 THEN WithReg(fo.c, regNames[fo.reg + 1], fo.offset) ELSE fo.c
executeLea(c) == Lea(fetchOperand(c))

\* case 0x87 (XCHG reg16, r/m16)
Xchg(fo, valReg) ==
    IF fo.mod = 3
    THEN WithReg(WithReg(fo.c, regNames[fo.reg + 1], fo.operand), regNames[fo.rm + 1], valReg)
    ELSE WithReg(writeWord(fo.c, get16(fo.c.registers, fo.segment), fo.offset, valReg),
                 regNames[fo.reg + 1], fo.operand)
XchgReg(c, fo) == Xchg(fo, get16(c.registers, regNames[fo.reg + 1]))
executeXchg(c) == XchgReg(c, fetchOperand(c))

\* case 0xE8 (CALL rel16)
\* a CALL that pushes the address of its displacement word, not the address after it
executeCallEarlyPush(c) ==
    LET currentIP == get16(c.registers, "IP")
        off == fetchWord(push16(c, currentIP))
    IN  WithReg(off.c, "IP", Mask16(get16(off.c.registers, "IP") + SignExt16(off.v)))

executeCall(c) ==
    LET off == fetchWord(c)
        currentIP == get16(off.c.registers, "IP")
    IN  WithReg(push16(off.c, currentIP), "IP", Mask16(currentIP + SignExt16(off.v)))

\* case 0x50 .. 0x57 and 0x58 .. 0x5F
executePush(c, regIndex) == push16(c, get16(c.registers, regNames[regIndex + 1]))
executePop(c, regIndex) ==
    LET p == pop16(c)
    IN  WithReg(p.c, regNames[regIndex + 1], p.v)

\* case 0x40 .. 0x47 and 0x48 .. 0x4F
executeInc(c, regIndex) ==
    LET a == inc16(c.registers, get16(c.registers, regNames[regIndex + 1]))
    IN  WithReg(WithRegs(c, a.r), regNames[regIndex + 1], a.v)
executeDec(c, regIndex) ==
    LET a == dec16(c.registers, get16(c.registers, regNames[regIndex + 1]))
    IN  WithReg(WithRegs(c, a.r), regNames[regIndex + 1], a.v)

\* case 0xB8 .. 0xBF (MOV reg16, imm16)
executeMovImm(c, regIndex) ==
    LET imm == fetchWord(c)
    IN  WithReg(imm.c, regNames[regIndex + 1], imm.v)

\* case 0x91 .. 0x97 (XCHG AX, reg16)
executeXchgAx(c, regIndex) ==
    LET valAX == get16(c.registers, "AX")
        valReg == get16(c.registers, regNames[regIndex + 1])
    IN  WithReg(WithReg(c, "AX", valReg), regNames[regIndex + 1], valAX)

\* the opcodes execute's switch has a case for
Dispatch ==
    {144, 244, 5, 45, 61, 37, 13, 53, 247, 116, 117, 139, 141, 232, 195, 114, 115,
     248, 249, 245, 135}
        \cup (184..191) \cup (64..79) \cup (208..211) \cup (80..95) \cup (145..151)

execute(c, opcode) ==
    CASE opcode = 144 -> c
      [] opcode = 244 -> [c EXCEPT !.halted = TRUE]
      [] opcode \in 184..191 -> executeMovImm(c, opcode - 184)
      [] opcode = 5 -> executeAxImm(c, "ADD")
      [] opcode = 45 -> executeAxImm(c, "SUB")
      [] opcode = 61 -> executeAxImm(c, "CMP")
      [] opcode = 37 -> executeAxImm(c, "AND")
      [] opcode = 13 -> executeAxImm(c, "OR")
      [] opcode = 53 -> executeAxImm(c, "XOR")
      [] opcode \in 64..71 -> executeInc(c, opcode - 64)
      [] opcode \in 72..79 -> executeDec(c, opcode - 72)
      [] opcode \in 208..211 -> executeShiftGroup(c, opcode)
      [] opcode = 247 -> executeGroupF7(c)
      [] opcode = 116 -> executeJcc(c, FLAGS.ZF, 1)
      [] opcode = 117 -> executeJcc(c, FLAGS.ZF, 0)
      [] opcode = 139 -> executeMovRegMem(c)
      [] opcode \in 80..87 -> executePush(c, opcode - 80)
      [] opcode \in 88..95 -> executePop(c, opcode - 88)
      [] opcode = 141 -> executeLea(c)
      [] opcode = 232 -> executeCall(c)
      [] opcode = 195 -> LET p == pop16(c) IN WithReg(p.c, "IP", p.v)
      [] opcode = 114 -> executeJcc(c, FLAGS.CF, 1)
      [] opcode = 115 -> executeJcc(c, FLAGS.CF, 0)
      [] opcode = 248 -> WithRegs(c, setFlag(c.registers, FLAGS.CF, FALSE))
      [] opcode = 249 -> WithRegs(c, setFlag(c.registers, FLAGS.CF, TRUE))
      [] opcode = 245 ->
            WithRegs(c, setFlag(c.registers, FLAGS.CF, getFlag(c.registers, FLAGS.CF) = 0))
      [] opcode \in 145..151 -> executeXchgAx(c, opcode - 144)
      [] opcode = 135 -> executeXchg(c)
      [] OTHER -> [c EXCEPT !.halted = TRUE]

\* c.lastError: neither the constructor nor step() nor execute() assigns such a
\* property, so reading it gives undefined whatever the CPU has done
lastError(c) == Undefined

\* an execute that passes over an opcode the switch has no case for
executeFetchedKnown(opcode) ==
    IF opcode.v \in Dispatch THEN execute(opcode.c, opcode.v) ELSE opcode.c

executeFetched(opcode) == execute(opcode.c, opcode.v)

\* a step that fetches and executes whether the CPU is halted or not
stepAlways(c) == executeFetched(fetchByte(c))

step(c) == IF c.halted THEN c ELSE executeFetched(fetchByte(c))

(***************************************************************************)
(* The sources, memory images and register presets the model runs.         *)
(***************************************************************************)
Ins0(m) == <<m>>
Ins1(m, a) == <<m, a>>
Ins2(m, a, b) == <<m, a, ",", b>>
Lab(l) == <<l, ":">>
LabIns(l, ins) == <<l, ":">> \o ins

Regs16 == {"AX", "CX", "DX", "BX", "SP", "BP", "SI", "DI"}
ShortJumps == {"JE", "JZ", "JNE", "JNZ", "JC", "JNC"}
NearJumps == {"JMP", "CALL"}

\* source lines of the forms an encoding table has to hold, each with the
\* opcode bytes its encoding may start with
Form(line, opcodes) == [line |-> line, opcodes |-> opcodes]
MinimumForms ==
    {Form(Ins2("MOV", "AX", "BX"), {137}), Form(Ins2("MOV", "DX", "5"), {186}),
     Form(Ins1("PUSH", "BX"), {83}), Form(Ins1("POP", "BX"), {91}),
     Form(Ins2("XCHG", "SI", "CX"), {135}), Form(Ins2("XCHG", "AX", "BX"), {135, 147}),
     Form(Ins2("ADD", "AX", "BX"), {1}), Form(Ins2("SUB", "AX", "BX"), {41}),
     Form(Ins2("CMP", "AX", "BX"), {57}),
     Form(Ins2("ADD", "AX", "2"), {5}), Form(Ins2("SUB", "AX", "2"), {45}),
     Form(Ins2("CMP", "AX", "2"), {61}),
     Form(Ins1("INC", "CX"), {65}), Form(Ins1("DEC", "CX"), {73}),
     Form(Ins2("AND", "AX", "BX"), {33}), Form(Ins2("OR", "AX", "BX"), {9}),
     Form(Ins2("XOR", "AX", "BX"), {49}), Form(Ins2("TEST", "AX", "BX"), {133}),
     Form(Ins2("AND", "AX", "1"), {37}), Form(Ins2("OR", "AX", "1"), {13}),
     Form(Ins2("XOR", "AX", "1"), {53}),
     Form(Ins0("MOVSB"), {164}), Form(Ins0("LODSB"), {172}), Form(Ins0("STOSB"), {170}),
     Form(Ins0("CMPSB"), {166}), Form(Ins0("RET"), {195}), Form(Ins0("NOP"), {144}),
     Form(Ins0("HLT"), {244}), Form(Ins0("CLC"), {248}), Form(Ins0("STC"), {249}),
     Form(Ins0("CMC"), {245})}
    \cup {Form(Ins1(m, "BX"), {247}) : m \in {"MUL", "IMUL", "DIV", "IDIV", "NEG", "NOT"}}
    \cup {Form(Ins2(m, "AX", "1"), {209}) : m \in {"ROL", "ROR", "RCL", "RCR", "SHL", "SHR", "SAR"}}
    \cup {Form(LabIns("L", Ins1("JMP", "L")), {233}), Form(LabIns("L", Ins1("CALL", "L")), {232}),
          Form(LabIns("L", Ins1("JE", "L")), {116}), Form(LabIns("L", Ins1("JZ", "L")), {116}),
          Form(LabIns("L", Ins1("JNE", "L")), {117}), Form(LabIns("L", Ins1("JNZ", "L")), {117}),
          Form(LabIns("L", Ins1("JC", "L")), {114}), Form(LabIns("L", Ins1("JNC", "L")), {115})}

\* one line for every form of the encoding table, and some forms it lacks
FormLines ==
    {Ins2(m, p[1], p[2]) : m \in {"MOV", "XCHG", "ADD", "SUB", "CMP", "AND", "OR", "XOR", "TEST"},
                           p \in {<<"AX", "BX">>, <<"SI", "CX">>}}
    \cup {Ins2("MOV", r, "5") : r \in Regs16}
    \cup {Ins2("MOV", "AX", v) : v \in {"0XFFFF", "-1", "70000"}}
    \cup {Ins2(m, r, "2") : m \in {"ADD", "SUB", "CMP"}, r \in {"AX", "DX"}}
    \cup {Ins1(m, r) : m \in {"PUSH", "POP", "INC", "DEC"}, r \in Regs16}
    \cup {Ins1(m, r) : m \in {"MUL", "DIV", "NOT"}, r \in {"BX", "CX"}}
    \cup {Ins0(m) : m \in {"MOVSB", "LODSB", "STOSB", "CMPSB", "RET", "ROL", "ROR", "SHL",
                           "SHR", "NOP", "HLT", "CLC", "STC", "LEA_REG_MEM"}}
    \cup {Ins1("ROL", "AX"), Ins0("XYZ"), Ins2("AND", "AX", "1"), Ins0("CMC"),
          Ins1("NEG", "AX"), Ins1("JZ", "NOWHERE")}

FormSources ==
    {<<l>> : l \in FormLines}
    \cup {<<f.line>> : f \in MinimumForms}
    \cup {<<LabIns("L", Ins1(j, "L"))>> : j \in ShortJumps \cup NearJumps}

Scenario1 == <<Ins2("MOV", "AX", "5"), Ins2("ADD", "AX", "2"), Ins0("HLT")>>
Scenario1Lower ==
    <<<<";", "demo">>, <<"mov", "ax", ",", "5">>, <<>>, <<"add", "ax", ",", "2", ";", "sum">>,
      <<"hlt">>>>
Scenario2 ==
    <<Ins2("MOV", "CX", "3"), LabIns("L1", Ins1("DEC", "CX")), Ins1("JNZ", "L1"), Ins0("HLT")>>
Scenario2Lower ==
    <<Ins2("MOV", "CX", "3"), <<"l1", ":", "DEC", "CX">>, <<"jnz", "l1">>, Ins0("HLT")>>
Scenario4 ==
    <<Ins2("MOV", "AX", "0X0010"), Ins2("MOV", "DX", "0"), Ins2("MOV", "BX", "2"),
      Ins1("DIV", "BX"), Ins0("HLT")>>
Scenario6 == <<Ins1("PUSH", "AX"), Ins1("POP", "BX")>>
DuplicateLabels ==
    <<LabIns("L1", Ins0("NOP")), LabIns("L1", Ins0("HLT")), Ins1("JNZ", "L1")>>

\* a jump over a form of descriptor size 2, and a loop around one
JumpOverDivide ==
    <<Ins1("JMP", "DONE"), Ins1("DIV", "BX"), LabIns("DONE", Ins0("HLT"))>>
LoopAroundMultiply ==
    <<Lab("AGAIN"), Ins1("MUL", "BX"), Ins1("JNZ", "AGAIN")>>

\* a jump to a label no line defines, then a form the table lacks
MixedErrors == <<Ins1("JZ", "NOWHERE"), Ins0("XYZ")>>
\* two encodable lines, then a jump to a label no line defines
LateUndefined == <<Ins2("MOV", "AX", "5"), Ins0("NOP"), Ins1("JNZ", "NOWHERE")>>

Scenarios ==
    {Scenario1, Scenario1Lower, Scenario2, Scenario2Lower, Scenario4, Scenario6,
     DuplicateLabels, MixedErrors, LateUndefined, JumpOverDivide, LoopAroundMultiply}

\* pad bytes of filler: ADD AX, 1 is four bytes and NOP is one
Filler(pad) == Repeat(Ins2("ADD", "AX", "1"), pad \div 4) \o Repeat(Ins0("NOP"), pad % 4)
JumpForward(j, pad) == <<Ins1(j, "FAR")>> \o Filler(pad) \o <<LabIns("FAR", Ins0("HLT"))>>
JumpBackward(j, pad) == <<Lab("BACK")>> \o Filler(pad) \o <<Ins1(j, "BACK")>>
ShortPads == {0, 2, 126, 127, 128, 200}
NearPads == {0, 5, 200}

JumpSources ==
    {JumpForward(j, pad) : j \in ShortJumps, pad \in ShortPads}
    \cup {JumpBackward(j, pad) : j \in ShortJumps, pad \in ShortPads}
    \cup {JumpForward(j, pad) : j \in NearJumps, pad \in NearPads}
    \cup {JumpBackward(j, pad) : j \in NearJumps, pad \in NearPads}

CoreLines ==
    {Lab("L1"), LabIns("L1", Ins0("NOP")), Ins1("JNZ", "L1"), Ins1("CALL", "L2"),
     Ins1("MUL", "BX"), Ins2("MOV", "AX", "5"), Ins0("HLT"), <<>>, <<";", "note">>,
     LabIns("L2", Ins1("DEC", "CX"))}

ShortSources == UNION {[1..n -> CoreLines] : n \in 0..MaxLines}

Sources == FormSources \cup Scenarios \cup JumpSources \cup ShortSources

\* the demo's hand-assembled program
DemoImage == <<184, 5, 0, 5, 2, 0, 244>>

\* every opcode byte, followed by the zeroes of a fresh memory
OpcodeImages == {<<opcode>> : opcode \in 0..255}

\* the group opcodes 0xF7, 0xD1 and 0xD3 with a ModR/M byte: every register
\* form, and some memory forms
ModRMs == (192..255) \cup {0, 6, 48, 56, 70, 134}
GroupImages == {<<opcode, modRM>> : opcode \in {247, 209, 211}, modRM \in ModRMs}

\* MOV DX, 1; MOV BX, 1; DIV BX: the quotient 0x10000 does not fit AX
DivOverflowImage == <<186, 1, 0, 187, 1, 0, 247, 243>>
\* MOV DX, 0x8000; MOV BX, 1; DIV BX: the quotient 0x80000000 does not fit AX
DivHighImage == <<186, 0, 128, 187, 1, 0, 247, 243>>
\* MOV AX, 0x8000; MOV BX, 1; IDIV BX: the quotient 32768 does not fit AX
IdivOverflowImage == <<184, 0, 128, 187, 1, 0, 247, 251>>
\* MOV AX, 0xFFFF; ADD AX, 1; STC; DEC AX; SHL AX, 1; NEG AX; CMC; HLT
FlagsImage == <<184, 255, 255, 5, 1, 0, 249, 72, 209, 224, 247, 216, 245, 244>>

Images ==
    {DemoImage, DivOverflowImage, DivHighImage, IdivOverflowImage, FlagsImage}
        \cup OpcodeImages \cup GroupImages

\* where a driver puts the code, and the registers it sets beforehand
LoadBases == {0, 65534}
Presets == {<<>>, [AX |-> 48879, SP |-> 65534], [AX |-> 48879, BX |-> 4660, SP |-> 256]}

(***************************************************************************)
(* State.                                                                  *)
(***************************************************************************)
VARIABLES
    source,         \* the text given to the assembler
    phase,          \* where the run is
    tokens,         \* lexer's output
    parsed,         \* parser's output
    lineNo,         \* the line the pass under way is at
    symbolTable,    \* buildSymbolTable's symbolTable
    offset,         \* buildSymbolTable's offset
    machineCode,    \* pass2's machineCode
    currentOffset,  \* pass2's currentOffset
    error,          \* the message of the error runAssembler threw, NoError if none
    result,         \* what runAssembler returned, NoResult if nothing
    registers,      \* the CPU's registers
    memory,         \* the CPU's memory
    halted,         \* the CPU's halted
    thrown,         \* whether step() threw
    boot,           \* the registers when the driver started stepping
    steps,          \* the number of step() calls made
    call            \* the last call a unit test made, NoCall if none

asmVars == <<source, phase, tokens, parsed, lineNo, symbolTable, offset, machineCode,
             currentOffset, error, result>>
cpuVars == <<registers, memory, halted, thrown, boot, steps, call>>
vars == <<source, phase, tokens, parsed, lineNo, symbolTable, offset, machineCode,
          currentOffset, error, result, registers, memory, halted, thrown, boot, steps,
          call>>

NoCall == [op |-> "none", a |-> 0, b |-> 0, ret |-> 0]
NoResult == [symbolTable |-> <<>>, machineCode |-> <<>>, hexString |-> "none"]

Init ==
    /\ source \in Sources
    /\ phase = "start"
    /\ tokens = <<>>
    /\ parsed = <<>>
    /\ lineNo = 0
    /\ symbolTable = <<>>
    /\ offset = 0
    /\ machineCode = <<>>
    /\ currentOffset = 0
    /\ error = NoError
    /\ result = NoResult
    /\ registers = NewCpu.registers
    /\ memory = NewCpu.memory
    /\ halted = NewCpu.halted
    /\ thrown = FALSE
    /\ boot = NewCpu.registers
    /\ steps = 0
    /\ call = NoCall

(***************************************************************************)
(* assemble, called by runAssembler: lexer, parser, buildSymbolTable,      *)
(* pass2.  An error thrown anywhere leaves runAssembler as                 *)
(* "Assembly Error: " followed by the message.                             *)
(***************************************************************************)
Throw(msg) ==
    /\ phase' = "error"
    /\ error' = <<"Assembly Error: ">> \o msg
    /\ lineNo' = 0
    /\ symbolTable' = <<>>
    /\ offset' = 0
    /\ machineCode' = <<>>
    /\ currentOffset' = 0
    /\ UNCHANGED <<source, tokens, parsed, result>>

Lexer ==
    /\ phase = "start"
    /\ tokens' = lexer(source)
    /\ phase' = "lexed"
    /\ UNCHANGED <<source, parsed, lineNo, symbolTable, offset, machineCode, currentOffset,
                   error, result>>
    /\ UNCHANGED cpuVars

Parser ==
    /\ phase = "lexed"
    /\ parsed' = parser(tokens)
    /\ phase' = "pass1"
    /\ lineNo' = 1
    /\ UNCHANGED <<source, tokens, symbolTable, offset, machineCode, currentOffset, error,
                   result>>
    /\ UNCHANGED cpuVars

\* the outcome r of buildSymbolTable's loop body takes effect
Pass1Line(r) ==
    IF r.error # NoError THEN Throw(r.error)
    ELSE /\ symbolTable' = r.symbolTable
         /\ offset' = r.offset
         /\ lineNo' = lineNo + 1
         /\ UNCHANGED <<source, phase, tokens, parsed, machineCode, currentOffset, error,
                        result>>

\* one iteration of buildSymbolTable's loop
Pass1Step ==
    /\ phase = "pass1"
    /\ lineNo <= Len(parsed)
    /\ Pass1Line(pass1Line(parsed[lineNo], symbolTable, offset))
    /\ UNCHANGED cpuVars

\* buildSymbolTable returns and pass2 starts
Pass1Return ==
    /\ phase = "pass1"
    /\ lineNo > Len(parsed)
    /\ phase' = "pass2"
    /\ lineNo' = 1
    /\ UNCHANGED <<source, tokens, parsed, symbolTable, offset, machineCode, currentOffset,
                   error, result>>
    /\ UNCHANGED cpuVars

\* the outcome r of pass2's loop body takes effect
Pass2Line(r) ==
    IF r.error # NoError THEN Throw(r.error)
    ELSE /\ machineCode' = machineCode \o r.bytes
         /\ currentOffset' = currentOffset + r.size
         /\ lineNo' = lineNo + 1
         /\ UNCHANGED <<source, phase, tokens, parsed, symbolTable, offset, error, result>>

\* one iteration of pass2's loop
Pass2Step ==
    /\ phase = "pass2"
    /\ lineNo <= Len(parsed)
    /\ Pass2Line(pass2Line(parsed[lineNo], symbolTable, currentOffset))
    /\ UNCHANGED cpuVars

\* pass2, assemble and runAssembler return
AssembleReturn ==
    /\ phase = "pass2"
    /\ lineNo > Len(parsed)
    /\ phase' = "returned"
    /\ result' = [symbolTable |-> symbolTable, machineCode |-> Uint8Array(machineCode),
                  hexString |-> toHexString(Uint8Array(machineCode))]
    /\ UNCHANGED <<source, tokens, parsed, lineNo, symbolTable, offset, machineCode,
                   currentOffset, error>>
    /\ UNCHANGED cpuVars

(***************************************************************************)
(* The driver: it writes a program into the memory of a new CPU, sets      *)
(* registers, and calls step().                                            *)
(***************************************************************************)
\* for (i ...) memory.writeByte(seg, off + i, bytes[i]): the last write to an
\* address is the one that stays
LoadBytes(m, seg, off, bytes) ==
    LET addr(i) == getPhysicalAddress(seg, off + i - 1)
        written == {addr(i) : i \in 1..Len(bytes)}
        last(a) == CHOOSE i \in 1..Len(bytes) :
                        addr(i) = a /\ \A j \in (i + 1)..Len(bytes) : addr(j) # a
        value(a) == IF a \in written THEN Mask8(bytes[last(a)]) ELSE m[a]
    IN  [a \in {x \in DOMAIN m \cup written : value(x) # 0} |-> value(a)]

RECURSIVE ApplyPreset(_, _, _)
ApplyPreset(r, preset, names) ==
    IF names = {} THEN r
    ELSE LET n == CHOOSE x \in names : TRUE
         IN  ApplyPreset(set16(r, n, preset[n]), preset, names \ {n})

Boot(bytes, base, preset) ==
    /\ registers' = set16(ApplyPreset(registers, preset, DOMAIN preset), "IP", base)
    /\ memory' = LoadBytes(memory, get16(registers, "CS"), base, bytes)
    /\ boot' = registers'
    /\ phase' = "loaded"
    /\ UNCHANGED <<halted, thrown, steps, call>>
    /\ UNCHANGED <<source, tokens, parsed, lineNo, symbolTable, offset, machineCode,
                   currentOffset, error, result>>

\* the assembled machineCode is copied to CS:IP
LoadProgram ==
    /\ phase = "returned"
    /\ \E base \in LoadBases, preset \in Presets : Boot(result.machineCode, base, preset)

\* a hand-assembled image is copied to CS:IP
LoadImage ==
    /\ phase = "start"
    /\ source = <<>>
    /\ \E image \in Images, base \in LoadBases, preset \in Presets : Boot(image, base, preset)

\* the CPU after a call of step()
Stepped(c) ==
    /\ registers' = c.registers
    /\ memory' = c.memory
    /\ halted' = c.halted
    /\ thrown' = c.thrown

Step ==
    /\ phase = "loaded"
    /\ ~thrown
    /\ steps < MaxSteps
    /\ Stepped(step(Cpu(registers, memory, halted, thrown)))
    /\ steps' = steps + 1
    /\ UNCHANGED <<boot, call>>
    /\ UNCHANGED asmVars

Next ==
    \/ Lexer
    \/ Parser
    \/ Pass1Step
    \/ Pass1Return
    \/ Pass2Step
    \/ AssembleReturn
    \/ LoadProgram
    \/ LoadImage
    \/ Step

Spec == Init /\ [][Next]_vars

(***************************************************************************)
(* The unit tests: on a CPU whose registers the test has set, one call of  *)
(* an ALU operation, of the memory, of push16 and then pop16, or one       *)
(* step() on an instruction the test has written at CS:IP.                 *)
(***************************************************************************)
\* AX
UnitWords == {0, 1, 2, 15, 16, 255, 4660, 32767, 32768, 65535}
\* CX, BX, SP, BP, SI, DI: the low bytes, CL, are 0, 1, 2, 15, 16, 17, 52 and 255
UnitCounts == {0, 1, 2, 15, 16, 17, 4660, 32767, 32768, 65535}
\* DX and SS
UnitHighs == {0, 1, 32768, 65535}
\* FLAGS: none; CF, PF, AF, ZF as ADD 0xFFFF + 1 leaves them; CF, OF as MUL leaves them
UnitFlags == {0, 85, 2049}

UnitRegisters(a, b, d, f) ==
    [n \in RegNames16 |->
        CASE n = "AX" -> a
          [] n \in {"CX", "BX", "SP", "BP", "SI", "DI"} -> b
          [] n \in {"DX", "SS"} -> d
          [] n = "FLAGS" -> f
          [] OTHER -> 0]

\* the word 0xBEEF at DS:0x0200
UnitOperand == <<0, 2>>
UnitOperandOffset == UnitOperand[1] + 256 * UnitOperand[2]
UnitMemory == LoadBytes(NewMemory, 0, UnitOperandOffset, <<239, 190>>)

\* the ALU operations called with AX and BX as their arguments
AluOps == {"add16", "sub16", "cmp16", "and16", "or16", "xor16", "test16", "inc16", "dec16"}
AluCall(op, r, a, b) ==
    CASE op = "add16" -> add16(r, a, b)
      [] op = "sub16" -> sub16(r, a, b)
      [] op = "cmp16" -> cmp16(r, a, b)
      [] op = "and16" -> and16(r, a, b)
      [] op = "or16" -> or16(r, a, b)
      [] op = "xor16" -> xor16(r, a, b)
      [] op = "test16" -> test16(r, a, b)
      [] op = "inc16" -> inc16(r, a)
      [] op = "dec16" -> dec16(r, a)

\* the instructions stepped: INC and DEC of every register, the AX, imm16
\* forms, DIV and IDIV by BX, MUL by BX and by the word at DS:0x0200, and the
\* shift group on AX by 1, on AX by CL and on the word at DS:0x0200 by CL,
\* the short conditional jumps, CALL rel16 and LEA
\* the displacement bytes of the short jumps: 0, +5, +127, -128, -2, -1
UnitDisplacements == {0, 5, 127, 128, 254, 255}
\* the displacement words of CALL: +5, -32768, -3 (the CALL itself)
UnitCallDisplacements == {<<5, 0>>, <<0, 128>>, <<253, 255>>}
\* LEA AX, [0200]; LEA DX, [BX+SI]; LEA BX, [BX-128]; LEA SP, [BP+SI+7FFF];
\* LEA AX, AX and LEA BX, CX (mod = 3)
UnitLeas == {<<141, 6>> \o UnitOperand, <<141, 16>>, <<141, 95, 128>>,
             <<141, 162, 255, 127>>, <<141, 192>>, <<141, 217>>}
UnitImmediates == {<<0, 0>>, <<1, 0>>, <<52, 18>>, <<0, 128>>, <<255, 255>>}
ShiftExtensions == {0, 1, 2, 3, 4, 5, 7}
UnitInstructions ==
    {<<64 + r>> : r \in 0..7} \cup {<<72 + r>> : r \in 0..7}
    \cup {<<opcode>> \o imm : opcode \in {5, 45, 61, 37, 13, 53}, imm \in UnitImmediates}
    \cup {<<247, 243>>, <<247, 251>>}
    \cup {<<247, 227>>, <<247, 38>> \o UnitOperand}
    \cup {<<opcode, d>> : opcode \in {114, 115, 116, 117}, d \in UnitDisplacements}
    \cup {<<232>> \o disp : disp \in UnitCallDisplacements}
    \cup UnitLeas
    \cup {<<209, 192 + 8 * e>> : e \in ShiftExtensions}
    \cup {<<211, 192 + 8 * e>> : e \in ShiftExtensions}
    \cup {<<211, 8 * e + 6>> \o UnitOperand : e \in ShiftExtensions}

CallOf(op, a, b, ret) == [op |-> op, a |-> a, b |-> b, ret |-> ret]

UnitInit ==
    /\ source = <<>>
    /\ phase = "unit"
    /\ tokens = <<>>
    /\ parsed = <<>>
    /\ lineNo = 0
    /\ symbolTable = <<>>
    /\ offset = 0
    /\ machineCode = <<>>
    /\ currentOffset = 0
    /\ error = NoError
    /\ result = NoResult
    /\ registers \in {UnitRegisters(a, b, d, f) :
                        a \in UnitWords, b \in UnitCounts, d \in UnitHighs, f \in UnitFlags}
    /\ memory = UnitMemory
    /\ halted = FALSE
    /\ thrown = FALSE
    /\ boot = registers
    /\ steps = 0
    /\ call = NoCall

\* the registers after an ALU call, and what it returned
UnitAluCalled(op, a, b, out) ==
    /\ registers' = out.r
    /\ call' = CallOf(op, a, b, out.v)
    /\ UNCHANGED <<memory, halted, thrown, boot, steps>>
    /\ UNCHANGED asmVars

\* alu.<op>(AX, BX)
UnitAlu ==
    /\ call.op = "none"
    /\ \E op \in AluOps :
            UnitAluCalled(op, get16(registers, "AX"), get16(registers, "BX"),
                          AluCall(op, registers, get16(registers, "AX"),
                                  get16(registers, "BX")))

\* memory.getPhysicalAddress(AX, BX + delta): the offsets reach 0x10000 and beyond
UnitAddress ==
    /\ call.op = "none"
    /\ \E delta \in {0, 1, 65536} :
            call' = CallOf("getPhysicalAddress", get16(registers, "AX"),
                           get16(registers, "BX") + delta,
                           getPhysicalAddress(get16(registers, "AX"),
                                              get16(registers, "BX") + delta))
    /\ UNCHANGED <<registers, memory, halted, thrown, boot, steps>>
    /\ UNCHANGED asmVars

\* memory.writeByte(AX, BX + delta, value)
UnitWriteByte ==
    /\ call.op = "none"
    /\ \E delta \in {0, 1, 65536}, value \in {165, 511} :
            /\ memory' = writeByte(memory, get16(registers, "AX"),
                                   get16(registers, "BX") + delta, value)
            /\ call' = CallOf("writeByte", get16(registers, "AX"),
                              get16(registers, "BX") + delta, value)
    /\ UNCHANGED <<registers, halted, thrown, boot, steps>>
    /\ UNCHANGED asmVars

\* cpu.push16(AX)
UnitPushed(c, value) ==
    /\ registers' = c.registers
    /\ memory' = c.memory
    /\ call' = CallOf("push16", value, 0, Undefined)
    /\ UNCHANGED <<halted, thrown, boot, steps>>
    /\ UNCHANGED asmVars

UnitPush ==
    /\ call.op = "none"
    /\ UnitPushed(push16(Cpu(registers, memory, halted, thrown), get16(registers, "AX")),
                  get16(registers, "AX"))

\* cpu.pop16() right after the push
UnitPopped(p) ==
    /\ registers' = p.c.registers
    /\ memory' = p.c.memory
    /\ call' = CallOf("pop16", call.a, 0, p.v)
    /\ UNCHANGED <<halted, thrown, boot, steps>>
    /\ UNCHANGED asmVars

UnitPop ==
    /\ call.op = "push16"
    /\ UnitPopped(pop16(Cpu(registers, memory, halted, thrown)))

\* the bytes of an instruction written at CS:IP, then cpu.step()
UnitStepped(r, ins) ==
    /\ boot' = r
    /\ Stepped(step(Cpu(r, LoadBytes(memory, get16(r, "CS"), get16(r, "IP"), ins),
                        halted, thrown)))
    /\ call' = CallOf("step", ins, 0, Undefined)

\* IP is set to where the instruction is written: the jumps, CALL and LEA are
\* also placed at the top of the code segment
OriginsOf(ins) == IF ins[1] \in {114, 115, 116, 117, 232, 141} THEN {0, 65534} ELSE {0}

UnitExecute ==
    /\ call.op = "none"
    /\ \E ins \in UnitInstructions :
            \E origin \in OriginsOf(ins) : UnitStepped(set16(registers, "IP", origin), ins)
    /\ UNCHANGED steps
    /\ UNCHANGED asmVars

\* resolveEffectiveAddress called directly: BX as the state has it, SI, DI and BP
\* set apart from it, and two bytes placed at CS:IP for the displacement
EaPointers == {<<1, 2, 4>>, <<65535, 32768, 61440>>}
EaBytes == {<<5, 0>>, <<128, 255>>, <<255, 127>>}
EaRegisters(r, p) == set16(set16(set16(r, "SI", p[1]), "DI", p[2]), "BP", p[3])

EaResolved(r, mod, rm, bytes, ea) ==
    /\ boot' = r
    /\ Stepped(ea.c)
    /\ call' = CallOf("resolveEffectiveAddress", <<mod, rm>>, bytes,
                      [offset |-> ea.offset, segment |-> ea.segment])

EaCalled(r, mod, rm, bytes) ==
    EaResolved(r, mod, rm, bytes,
               resolveEffectiveAddress(
                   Cpu(r, LoadBytes(memory, get16(r, "CS"), get16(r, "IP"), bytes),
                       halted, thrown), mod, rm))

UnitResolve ==
    /\ call.op = "none"
    /\ get16(registers, "AX") = 0
    /\ get16(registers, "FLAGS") = 0
    /\ \E mod \in 0..2, rm \in 0..7, p \in EaPointers, bytes \in EaBytes :
            EaCalled(EaRegisters(registers, p), mod, rm, bytes)
    /\ UNCHANGED steps
    /\ UNCHANGED asmVars

\* after a CALL: the instructions the called code runs before it returns,
\* PUSH AX, POP CX and INC AX, each written at CS:IP and stepped
MaxCalleeSteps == 2
CalleeInstructions == {<<80>>, <<89>>, <<64>>}
CallStepped == call.op = "step" /\ call.a[1] = 232

UnitCallee ==
    /\ CallStepped
    /\ get16(boot, "FLAGS") = 0
    /\ steps < MaxCalleeSteps
    /\ \E ins \in CalleeInstructions :
            Stepped(step(Cpu(registers,
                             LoadBytes(memory, get16(registers, "CS"),
                                       get16(registers, "IP"), ins),
                             halted, thrown)))
    /\ steps' = steps + 1
    /\ UNCHANGED <<boot, call>>
    /\ UNCHANGED asmVars

\* RET written at CS:IP and stepped
UnitReturn ==
    /\ CallStepped
    /\ Stepped(step(Cpu(registers,
                        LoadBytes(memory, get16(registers, "CS"),
                                  get16(registers, "IP"), <<195>>),
                        halted, thrown)))
    /\ call' = CallOf("ret", call.a, 0, Undefined)
    /\ UNCHANGED <<boot, steps>>
    /\ UNCHANGED asmVars

UnitNext ==
    \/ UnitAlu
    \/ UnitAddress
    \/ UnitWriteByte
    \/ UnitPush
    \/ UnitPop
    \/ UnitExecute
    \/ UnitCallee
    \/ UnitReturn
    \/ UnitResolve

UnitSpec == UnitInit /\ [][UnitNext]_vars

(***************************************************************************)
(* Properties of the assembler and the engine: auxiliary definitions.      *)
(***************************************************************************)
\* the encoding-table size of a parsed line's form: 0 when it has no instruction
DescriptorSize(line) ==
    IF Truthy(line.mnemonic) /\ HasEntry(detectInstructionKey(line.mnemonic, line.operands))
    THEN instructionMap[detectInstructionKey(line.mnemonic, line.operands)].size
    ELSE 0

\* the sum of the descriptor sizes of the first n parsed lines
SizesBefore(n) == SeqSum([i \in 1..(n - 1) |-> DescriptorSize(parsed[i])])

\* the driver loaded the code at CS:0 of a reset CPU
ResetBoot == phase = "loaded" /\ boot = NewCpu.registers

AX == get16(registers, "AX")
BX == get16(registers, "BX")
CX == get16(registers, "CX")
DX == get16(registers, "DX")
SP == get16(registers, "SP")
IP == get16(registers, "IP")

\* pass2 is at an instruction line of one of the given mnemonics
EncodingOneOf(mnemonics) ==
    /\ phase = "pass2"
    /\ lineNo <= Len(parsed)
    /\ parsed[lineNo].mnemonic \in mnemonics

(***************************************************************************)
(* C1: pass 2 appends exactly the descriptor size of each instruction, so  *)
(* that while it runs and when assemble returns the length of machineCode  *)
(* is the sum of the descriptor sizes of the instructions encoded.         *)
(***************************************************************************)
C1_SizeLaw ==
    /\ phase = "pass2" => Len(machineCode) = SizesBefore(lineNo)
    /\ phase = "returned" => Len(result.machineCode) = SizesBefore(Len(parsed) + 1)

(***************************************************************************)
(* C2: MOV AX, 5 / ADD AX, 2 / HLT assembles to exactly the seven bytes    *)
(* B8 05 00 05 02 00 F4.                                                   *)
(***************************************************************************)
C2_Scenario1Bytes ==
    (source = Scenario1 /\ phase = "returned")
        => result.machineCode = <<184, 5, 0, 5, 2, 0, 244>>

\* the 8086's numbers of the word registers
RegIndexCanonical ==
    [AX |-> 0, CX |-> 1, DX |-> 2, BX |-> 3, SP |-> 4, BP |-> 5, SI |-> 6, DI |-> 7]

(***************************************************************************)
(* C3: PUSH r, POP r, INC r and DEC r are encoded as the one byte          *)
(* opcode + regIndex(r), with AX=0 CX=1 DX=2 BX=3 SP=4 BP=5 SI=6 DI=7.     *)
(***************************************************************************)
C3_RegInOpcode ==
    [][(/\ EncodingOneOf({"PUSH", "POP", "INC", "DEC"})
        /\ Len(parsed[lineNo].operands) = 1
        /\ parsed[lineNo].operands[1] \in Regs16)
       => (/\ phase' = "pass2"
           /\ machineCode' = machineCode \o
                <<instructionMap[parsed[lineNo].mnemonic \o "_REG"].opcode
                    + RegIndexCanonical[parsed[lineNo].operands[1]]>>)]_vars

\* pass2 pushed these bytes for the line and went on
Appended(bytes) == phase' = "pass2" /\ machineCode' = machineCode \o bytes

\* the jump pass2 is at: its label, its opcode, and its displacement from the
\* assembler's offsets
JumpLabel == parsed[lineNo].operands[1]
JumpOpcode == instructionMap[parsed[lineNo].mnemonic].opcode
ShortDisp == symbolTable[JumpLabel] - (SizesBefore(lineNo) + 2)
NearDisp == symbolTable[JumpLabel] - (SizesBefore(lineNo) + 3)

\* pass2 is at a jump of one of the given mnemonics whose label is defined
EncodingJump(mnemonics) ==
    /\ EncodingOneOf(mnemonics)
    /\ Len(parsed[lineNo].operands) = 1
    /\ JumpLabel \in DOMAIN symbolTable

FailsTooFar ==
    /\ phase' = "error"
    /\ \E i \in 1..Len(error') : error'[i] = "Jump to " \o JumpLabel \o " is too far"

ControlTransfers == ShortJumps \cup NearJumps \cup {"RET"}

\* the source was one instruction, and step() was called once on its bytes
SteppedOneInstruction ==
    /\ phase = "loaded"
    /\ steps = 1
    /\ Len(parsed) = 1
    /\ Truthy(parsed[1].mnemonic)

(***************************************************************************)
(* C5: for every form of the encoding table that does not transfer         *)
(* control, one step() on the bytes the encoder emitted for an instruction *)
(* of that form, placed at CS:IP of a CPU that is not halted, leaves IP at *)
(* (IP before + descriptor size) mod 2^16.                                 *)
(***************************************************************************)
C5_StepAdvancesBySize ==
    (SteppedOneInstruction /\ parsed[1].mnemonic \notin ControlTransfers)
        => IP = (get16(boot, "IP") + DescriptorSize(parsed[1])) % 65536

(***************************************************************************)
(* C6: in MOV CX, 3 / L1: DEC CX / JNZ L1 / HLT the encoder gives DEC CX   *)
(* as the byte 0x49 and JNZ L1 as 75 FD, and a reset CPU running the bytes *)
(* from CS:0 is, once halted, at CX = 0, ZF = 1 and IP = 7, just past HLT. *)
(***************************************************************************)
C6_Scenario2 ==
    /\ (source = Scenario2 /\ phase = "returned")
            => /\ result.machineCode[4] = 73
               /\ SubSeq(result.machineCode, 5, 6) = <<117, 253>>
    /\ (source = Scenario2 /\ ResetBoot /\ halted)
            => /\ CX = 0
               /\ getFlag(registers, FLAGS.ZF) = 1
               /\ IP = 7

(***************************************************************************)
(* C7: in MOV AX, 0x0010 / MOV DX, 0 / MOV BX, 2 / DIV BX / HLT run on a   *)
(* reset CPU from CS:0, the fourth step, which executes DIV, starts with   *)
(* DX:AX = 0x00000010 and BX = 2 and leaves AX = 8 and DX = 0, and these   *)
(* are the values at halt.                                                 *)
(***************************************************************************)
C7_Scenario4 ==
    /\ (source = Scenario4 /\ ResetBoot /\ steps = 3)
            => (AX = 16 /\ DX = 0 /\ BX = 2)
    /\ (source = Scenario4 /\ ResetBoot /\ (steps >= 4 \/ halted))
            => (AX = 8 /\ DX = 0)

(***************************************************************************)
(* C8: PUSH AX / POP BX, run for two steps with AX = 0xBEEF beforehand,    *)
(* leaves BX = 0xBEEF, SP as it was before the first step, and the bytes   *)
(* EF and BE at SS:(SP-2) and SS:(SP-1).                                   *)
(***************************************************************************)
C8_PushPop ==
    (source = Scenario6 /\ phase = "loaded" /\ get16(boot, "AX") = 48879 /\ steps = 2)
        => /\ BX = 48879
           /\ SP = get16(boot, "SP")
           /\ readByte(memory, get16(registers, "SS"), Mask16(SP - 2)) = 239
           /\ readByte(memory, get16(registers, "SS"), Mask16(SP - 1)) = 190

DemoLoaded ==
    /\ ResetBoot
    /\ \A i \in 1..7 : readByte(memory, 0, i - 1) = DemoImage[i]

(***************************************************************************)
(* C9: a reset CPU whose memory holds B8 05 00 05 02 00 F4 at the physical *)
(* addresses 0 .. 6 is not halted before its third step and is halted      *)
(* after it, with AX = 7 and IP = 7.                                       *)
(***************************************************************************)
C9_DemoHaltsAfterThree ==
    DemoLoaded => /\ steps < 3 => ~halted
                  /\ steps >= 3 => (halted /\ AX = 7 /\ IP = 7)

C9_Witness == DemoLoaded /\ steps = 3 /\ halted /\ AX = 7

DuplicateLabel ==
    \E i, j \in 1..Len(parsed) :
        i < j /\ Truthy(parsed[i].label) /\ parsed[i].label = parsed[j].label

(***************************************************************************)
(* C10: a source that defines the same label on two lines makes assemble   *)
(* fail; assemble never returns for it.                                    *)
(***************************************************************************)
C10_DuplicateLabelFails == DuplicateLabel => phase \notin {"returned", "loaded"}

\* the lines assemble works on, and the labels they define
Lines == parser(lexer(source))
Labels == {Lines[i].label : i \in {j \in 1..Len(Lines) : Truthy(Lines[j].label)}}
KeyOf(line) == detectInstructionKey(line.mnemonic, line.operands)

\* a line whose form the encoding table lacks
UnknownForm(line) == Truthy(line.mnemonic) /\ ~HasEntry(KeyOf(line))
\* a relative jump or call whose label no line defines
UndefinedJump(line) ==
    /\ Truthy(line.mnemonic)
    /\ HasEntry(KeyOf(line))
    /\ instructionMap[KeyOf(line)].relative
    /\ Operand(line.operands, 1) \notin Labels
BadLine(line) == UnknownForm(line) \/ UndefinedJump(line)

\* the error runAssembler throws for such a line
BadLineError(line) ==
    IF UnknownForm(line)
    THEN <<"Assembly Error: ", "Unknown instruction form: " \o KeyOf(line)>>
    ELSE <<"Assembly Error: ", "Undefined label: " \o Operand(line.operands, 1)>>

FirstLine(P(_)) ==
    Lines[CHOOSE i \in 1..Len(Lines) : P(Lines[i]) /\ \A j \in 1..(i - 1) : ~P(Lines[j])]

\* assemble has ended, with a result or with an error
Ended == phase \in {"error", "returned", "loaded"}

Pass1Done ==
    IF phase = "pass1" THEN lineNo - 1
    ELSE IF phase \in {"pass2", "returned", "loaded"} THEN Len(parsed) ELSE 0

\* line i is the last of the lines gone through that defines its label
LastDefinition(i) ==
    /\ Truthy(parsed[i].label)
    /\ \A j \in (i + 1)..Pass1Done : parsed[j].label # parsed[i].label

(***************************************************************************)
(* C12: pass 1 maps every label to the running offset at its line, the sum *)
(* of the descriptor sizes of the instructions on the lines before it: the *)
(* instruction on the label's own line is not counted, a line with only a  *)
(* label adds nothing, and pass 1 emits no bytes.                          *)
(***************************************************************************)
C12_LabelOffsets ==
    /\ phase = "pass1" => machineCode = <<>> /\ offset = SizesBefore(lineNo)
    /\ DOMAIN symbolTable = {parsed[i].label : i \in {j \in 1..Pass1Done : LastDefinition(j)}}
    /\ \A i \in 1..Pass1Done :
            LastDefinition(i) => symbolTable[parsed[i].label] = SizesBefore(i)
    /\ phase = "returned" => result.symbolTable = symbolTable

\* JNZ FAR, NOP, NOP, FAR: HLT: the label is at 2 + 1 + 1, HLT not counted
C12_Witness ==
    /\ source = JumpForward("JNZ", 2)
    /\ phase = "pass2"
    /\ symbolTable = [l \in {"FAR"} |-> 4]
    /\ machineCode = <<>>

(***************************************************************************)
(* C13: the encoding table has an entry for every form of the minimum set, *)
(* with the opcode listed for it, so a source line that uses any of these  *)
(* forms assembles, to bytes that start with that opcode.                  *)
(***************************************************************************)
C13_MinimumFormsAssemble ==
    \A f \in MinimumForms :
        (source = <<f.line>> /\ Ended) =>
            /\ phase # "error"
            /\ result.machineCode # <<>>
            /\ result.machineCode[1] \in f.opcodes

\* the byte at CS:IP, which the next step() fetches as its opcode
Opcode == readByte(memory, get16(registers, "CS"), IP)
\* the byte at CS:IP when the driver started stepping
BootOpcode == readByte(memory, get16(boot, "CS"), get16(boot, "IP"))
\* this transition is a call of step()
StepCall == phase = "loaded" /\ steps' = steps + 1

(***************************************************************************)
(* C14: step() on a halted CPU changes nothing: the registers (IP and      *)
(* FLAGS among them), the memory and halted stay as they are, so a halted  *)
(* CPU stays halted in the same state.                                     *)
(***************************************************************************)
C14_HaltedStepChangesNothing ==
    [][(StepCall /\ halted) =>
            /\ registers' = registers
            /\ memory' = memory
            /\ halted'
            /\ ~thrown']_vars

\* the demo halts at its third step: two more steps have left it as it was
C14_Witness == DemoLoaded /\ halted /\ steps = 5 /\ AX = 7 /\ IP = 7

(***************************************************************************)
(* C15: a step() that fetches 0xF4 sets halted; a step() that fetches an   *)
(* opcode byte the dispatch has no case for sets halted too, and returns   *)
(* without throwing.                                                       *)
(***************************************************************************)
C15_HltAndUnknownOpcodeHalt ==
    [][(StepCall /\ ~halted) =>
            /\ Opcode = 244 => halted' /\ ~thrown'
            /\ Opcode \notin Dispatch => halted' /\ ~thrown']_vars

\* 0x0F has no case: one step from reset has halted the CPU, with IP past it
C15_Witness ==
    /\ ResetBoot
    /\ BootOpcode = 15
    /\ steps = 1
    /\ halted
    /\ ~thrown
    /\ IP = 1

\* the ModR/M byte that follows the opcode at CS:IP, and its reg field
ModRMByte == readByte(memory, get16(registers, "CS"), Mask16(IP + 1))
Extension == (ModRMByte \div 8) % 8

(***************************************************************************)
(* C16: an extension a group opcode does not define is a fatal decode      *)
(* error: a step() that executes 0xF7 with the ModR/M reg field 1, or 0xD1 *)
(* or 0xD3 with the reg field 6, leaves the CPU halted.                    *)
(***************************************************************************)
C16_UnknownExtensionHalts ==
    [][(StepCall /\ ~halted) =>
            /\ (Opcode = 247 /\ Extension = 1) => halted'
            /\ (Opcode \in {209, 211} /\ Extension = 6) => halted']_vars

(***************************************************************************)
(* C17: the CPU has a lastError field that tells the two halts apart:      *)
(* after a step() that halts on HLT it shows no error, after a step() that *)
(* halts on an opcode without a case it holds a decode-error value.        *)
(***************************************************************************)
C17_LastErrorTellsHalts ==
    [][(StepCall /\ ~halted) =>
            /\ Opcode = 244 =>
                    halted' /\ lastError(Cpu(registers', memory', halted', thrown')) = Undefined
            /\ Opcode \notin Dispatch =>
                    halted' /\ lastError(Cpu(registers', memory', halted', thrown')) # Undefined]_vars

\* the register a ModR/M byte of mod 3 names as the operand
Divisor == get16(registers, regNames[(ModRMByte % 8) + 1])

\* DX:AX divided by the operand has no quotient that fits AX: unsigned, the
\* quotient exceeds 0xFFFF exactly when DX is not below the divisor
DivTraps == Divisor = 0 \/ DX >= Divisor
IdivTraps ==
    \/ Divisor = 0
    \/ Dividend32(DX, AX) = 0 - 2147483647 - 1 /\ SignExt16(Divisor) = 0 - 1
    \/ JsTruncDiv(Dividend32(DX, AX), SignExt16(Divisor)) > 32767
    \/ JsTruncDiv(Dividend32(DX, AX), SignExt16(Divisor)) < 0 - 32768

\* this transition is a step() on DIV or IDIV by a register whose division traps
DivideErrorStep ==
    /\ StepCall
    /\ ~halted
    /\ Opcode = 247
    /\ ModRMByte >= 192
    /\ (Extension = 6 /\ DivTraps) \/ (Extension = 7 /\ IdivTraps)

(***************************************************************************)
(* C18: DIV (F7 /6) and IDIV (F7 /7) with a zero divisor, or with a        *)
(* quotient out of range (DIV: above 0xFFFF; IDIV: outside -32768..32767), *)
(* invoke the interrupt hook with vector 0: step() returns without         *)
(* throwing, the CPU is not halted, and the registers are those the hook   *)
(* leaves.                                                                 *)
(***************************************************************************)
C18_DivideErrorCallsHook ==
    [][DivideErrorStep =>
            /\ ~thrown'
            /\ ~halted'
            /\ registers' = triggerInterrupt(set16(registers, "IP", IP + 2), 0)]_vars

(***************************************************************************)
(* C19: after a step() in which DIV or IDIV traps, IP is the address of    *)
(* the 0xF7 opcode byte, the IP before the step.                           *)
(***************************************************************************)
C19_TrapLeavesIPAtOpcode ==
    [][DivideErrorStep => get16(registers', "IP") = IP]_vars

\* the bits of FLAGS that are no flag
ReservedFlagBits == {1, 3, 5, 12, 13, 14, 15}

(***************************************************************************)
(* C20: in every state reached from reset by step() calls, whatever the    *)
(* memory holds, the bits 1, 3, 5 and 12 .. 15 of FLAGS are zero.          *)
(***************************************************************************)
C20_ReservedFlagBitsZero ==
    \A b \in ReservedFlagBits : Bit(get16(registers, "FLAGS"), b) = 0

\* MOV AX, 0xFFFF; ADD AX, 1 has set CF, PF, AF and ZF and nothing else
C20_Witness ==
    /\ ResetBoot
    /\ BootOpcode = 184
    /\ steps = 2
    /\ AX = 0
    /\ get16(registers, "FLAGS") = 85

\* the physical address of segment:offset, from the three moduli
PhysicalAddress(seg, off) == (((seg % 65536) * 16) + (off % 65536)) % 1048576

(***************************************************************************)
(* C21: for every segment and offset given to the memory, offsets of       *)
(* 0x10000 and more among them, the physical address is                    *)
(* (((segment mod 2^16) * 16) + (offset mod 2^16)) mod 2^20: every index   *)
(* read or written is at most 0xFFFFF, and an address past 1 MiB wraps to  *)
(* the bottom.                                                             *)
(***************************************************************************)
C21_PhysicalAddressWraps ==
    /\ \A x \in DOMAIN memory : 0 <= x /\ x <= 1048575
    /\ call.op = "getPhysicalAddress" =>
            call.ret = PhysicalAddress(call.a, call.b) /\ 0 <= call.ret /\ call.ret <= 1048575
    /\ call.op = "writeByte" =>
            /\ MemGet(memory, PhysicalAddress(call.a, call.b)) = call.ret % 256
            /\ \A x \in DOMAIN memory \cup DOMAIN UnitMemory :
                    x # PhysicalAddress(call.a, call.b) =>
                        MemGet(memory, x) = MemGet(UnitMemory, x)

\* segment 0xFFFF, offset 0x0010 is physical address 0
C21_Witness ==
    /\ call.op = "getPhysicalAddress"
    /\ call.a = 65535
    /\ call.b = 16
    /\ call.ret = 0

\* getPhysicalAddress was called on a 16-bit segment and a 16-bit offset
AddressCall16 ==
    /\ call.op = "getPhysicalAddress"
    /\ call.a \in 0..65535
    /\ call.b \in 0..65535

(***************************************************************************)
(* C22, as stated: for every 16-bit segment and offset,                    *)
(* getPhysicalAddress(seg, off) = getPhysicalAddress(seg + 1, off - 16).   *)
(***************************************************************************)
C22_SegmentOffsetAlias ==
    AddressCall16 => call.ret = getPhysicalAddress(call.a + 1, call.b - 16)

(***************************************************************************)
(* C22, amended: the two addresses are equal for every 16-bit segment and  *)
(* every offset of 16 and more; for an offset below 16, off - 16 wraps to  *)
(* the top of the next segment and the second address lies 0x10000 above   *)
(* the first, modulo 2^20.                                                 *)
(***************************************************************************)
C22_SegmentOffsetAliasFrom16 ==
    AddressCall16 =>
        IF call.b >= 16
        THEN call.ret = getPhysicalAddress(call.a + 1, call.b - 16)
        ELSE getPhysicalAddress(call.a + 1, call.b - 16) = (call.ret + 65536) % 1048576

\* segment 0xFFFF, whose successor wraps to segment 0, with offset 0x1234
C22_Witness ==
    /\ AddressCall16
    /\ call.a = 65535
    /\ call.b = 4660
    /\ call.ret = 4644

\* every register but SP is as it was before the calls
OnlySPMoved == \A n \in RegNames16 \ {"SP"} : registers[n] = boot[n]

(***************************************************************************)
(* C23: push16(v) leaves SP = (SP - 2) mod 2^16 with the low byte of v at  *)
(* SS:SP and its high byte at SS:SP+1; pop16 right after it returns v and  *)
(* restores SP, also when SP was 0 or 1 before the push.                   *)
(***************************************************************************)
C23_PushPopRoundTrip ==
    /\ call.op = "push16" =>
            /\ registers["SP"] = (boot["SP"] - 2) % 65536
            /\ OnlySPMoved
            /\ MemGet(memory, PhysicalAddress(boot["SS"], registers["SP"])) = call.a % 256
            /\ MemGet(memory, PhysicalAddress(boot["SS"], registers["SP"] + 1))
                    = (call.a \div 256) % 256
    /\ call.op = "pop16" =>
            /\ call.ret = call.a
            /\ registers = boot

\* 0x1234 pushed with SP = 1: SP is 0xFFFF, the high byte is at SS:0x0000,
\* and the pop gives 0x1234 back with SP = 1
C23_Witness ==
    /\ call.op = "pop16"
    /\ call.a = 4660
    /\ call.ret = 4660
    /\ boot["SP"] = 1
    /\ registers["SP"] = 1
    /\ MemGet(memory, PhysicalAddress(boot["SS"], 65535)) = 52
    /\ MemGet(memory, PhysicalAddress(boot["SS"], 0)) = 18

\* a flag after the call, and before it
Flag(f) == Bit(registers["FLAGS"], f) = 1
FlagBefore(f) == Bit(boot["FLAGS"], f) = 1

\* the low byte of x has an even number of 1 bits
EvenParity(x) ==
    (Bit(x, 0) + Bit(x, 1) + Bit(x, 2) + Bit(x, 3)
        + Bit(x, 4) + Bit(x, 5) + Bit(x, 6) + Bit(x, 7)) % 2 = 0

\* ZF, SF and PF are those of the result res
ResultFlags(res) ==
    /\ Flag(FLAGS.ZF) <=> res = 0
    /\ Flag(FLAGS.SF) <=> Bit(res, 15) = 1
    /\ Flag(FLAGS.PF) <=> EvenParity(res)

\* the flags of a + b with 16-bit result res
AddFlags(a, b, res) ==
    /\ ResultFlags(res)
    /\ Flag(FLAGS.CF) <=> a + b > 65535
    /\ Flag(FLAGS.AF) <=> (a % 16) + (b % 16) > 15
    /\ Flag(FLAGS.OF) <=> (Bit(a, 15) # Bit(res, 15) /\ Bit(b, 15) # Bit(res, 15))

\* the flags of a - b with 16-bit result res
SubFlags(a, b, res) ==
    /\ ResultFlags(res)
    /\ Flag(FLAGS.CF) <=> a < b
    /\ Flag(FLAGS.AF) <=> (a % 16) < (b % 16)
    /\ Flag(FLAGS.OF) <=> (Bit(a, 15) # Bit(b, 15) /\ Bit(a, 15) # Bit(res, 15))

CmpAxStep == call.op = "step" /\ call.a[1] = 61
Imm16 == call.a[2] + 256 * call.a[3]

RegisterOrder == <<"AX", "CX", "DX", "BX", "SP", "BP", "SI", "DI">>
IncStep == call.op = "step" /\ call.a[1] \in 64..71
DecStep == call.op = "step" /\ call.a[1] \in 72..79
StepRegister == RegisterOrder[(call.a[1] % 8) + 1]

\* ZF, SF, PF from the result, AF and OF as given, CF as before
IncDecFlags(res, af, of) ==
    /\ ResultFlags(res)
    /\ Flag(FLAGS.AF) <=> af
    /\ Flag(FLAGS.OF) <=> of
    /\ Flag(FLAGS.CF) <=> FlagBefore(FLAGS.CF)

(***************************************************************************)
(* C26: INC r (0x40 + r) writes (v + 1) mod 2^16 to r and sets OF iff      *)
(* v = 0x7FFF and AF iff (v & 0xF) = 0xF; DEC r (0x48 + r) writes          *)
(* (v - 1) mod 2^16 and sets OF iff v = 0x8000 and AF iff (v & 0xF) = 0;   *)
(* both set ZF, SF and PF from the result and leave CF unchanged.          *)
(***************************************************************************)
C26_IncDecRegister ==
    /\ IncStep =>
            /\ registers[StepRegister] = (boot[StepRegister] + 1) % 65536
            /\ IncDecFlags((boot[StepRegister] + 1) % 65536,
                           boot[StepRegister] % 16 = 15, boot[StepRegister] = 32767)
    /\ DecStep =>
            /\ registers[StepRegister] = (boot[StepRegister] - 1) % 65536
            /\ IncDecFlags((boot[StepRegister] - 1) % 65536,
                           boot[StepRegister] % 16 = 0, boot[StepRegister] = 32768)

\* INC CX with CX = 0x7FFF and CF set: CX = 0x8000, OF set, CF still set
C26_Witness ==
    /\ IncStep
    /\ StepRegister = "CX"
    /\ boot["CX"] = 32767
    /\ registers["CX"] = 32768
    /\ FlagBefore(FLAGS.CF)
    /\ Flag(FLAGS.CF)
    /\ Flag(FLAGS.OF)

\* one bit of a logical operation, and the 16-bit word made of such bits
LogicBit(op, x, y) ==
    CASE op \in {"and16", "test16"} -> x * y
      [] op = "or16" -> x + y - x * y
      [] op = "xor16" -> (x + y) % 2

RECURSIVE LogicWord(_, _, _, _)
LogicWord(op, a, b, n) ==
    IF n = 0 THEN 0
    ELSE LogicBit(op, a % 2, b % 2) + 2 * LogicWord(op, a \div 2, b \div 2, n - 1)

\* a call of one of the four logical operations; a step of AND, OR or XOR
\* AX, imm16 and the operation it stands for
LogicalCall == call.op \in {"and16", "or16", "xor16", "test16"}
LogicalAxStep == call.op = "step" /\ call.a[1] \in {37, 13, 53}
LogicalOfStep ==
    CASE call.a[1] = 37 -> "and16"
      [] call.a[1] = 13 -> "or16"
      [] call.a[1] = 53 -> "xor16"

\* CF and OF are 0, ZF, SF and PF are those of res, AF is as before
LogicalFlags(res) ==
    /\ ~Flag(FLAGS.CF)
    /\ ~Flag(FLAGS.OF)
    /\ ResultFlags(res)
    /\ Flag(FLAGS.AF) <=> FlagBefore(FLAGS.AF)

(***************************************************************************)
(* C27: for all 16-bit a and b and any prior FLAGS, and16, or16, xor16 and *)
(* test16 leave CF = 0 and OF = 0, set ZF, SF and PF from the result and   *)
(* leave AF unchanged; test16 returns no result, and AND/OR/XOR AX, imm16  *)
(* (0x25, 0x0D, 0x35) store the result in AX.                              *)
(***************************************************************************)
C27_LogicalClearCarryOverflow ==
    /\ LogicalCall =>
            /\ LogicalFlags(LogicWord(call.op, call.a, call.b, 16))
            /\ call.ret = IF call.op = "test16" THEN Undefined
                          ELSE LogicWord(call.op, call.a, call.b, 16)
    /\ LogicalAxStep =>
            /\ LogicalFlags(LogicWord(LogicalOfStep, boot["AX"], Imm16, 16))
            /\ registers["AX"] = LogicWord(LogicalOfStep, boot["AX"], Imm16, 16)

\* the unsigned division of rem:ax by d, for rem < d, one bit of the n low
\* bits of ax at a time: <<quotient, remainder>>
RECURSIVE LongDivide(_, _, _, _, _)
LongDivide(quot, rem, ax, d, n) ==
    IF n = 0 THEN <<quot, rem>>
    ELSE IF 2 * rem + Bit(ax, n - 1) >= d
         THEN LongDivide(2 * quot + 1, 2 * rem + Bit(ax, n - 1) - d, ax, d, n - 1)
         ELSE LongDivide(2 * quot, 2 * rem + Bit(ax, n - 1), ax, d, n - 1)

\* a word read as a signed number
Signed16(w) == IF w >= 32768 THEN w - 65536 ELSE w
\* DX:AX before the step read as a signed 32-bit number
SignedDividend == Signed16(boot["DX"]) * 65536 + boot["AX"]

\* n / d truncated toward zero, for d > 0
TruncatedQuotient(n, d) == IF n < 0 /\ n % d # 0 THEN (n \div d) + 1 ELSE n \div d

\* the signed quotient of n by d # 0 lies in -32768..32767
SignedQuotientFits(n, d) ==
    IF d > 0 THEN TruncatedQuotient(n, d) \in -32768..32767
    ELSE TruncatedQuotient(n, 0 - d) \in -32767..32768

DivStep == call.op = "step" /\ call.a = <<247, 243>>
IdivStep == call.op = "step" /\ call.a = <<247, 251>>

\* AX and DX after DIV BX are the unsigned quotient and remainder of DX:AX
UnsignedQuotientStored ==
    /\ registers["AX"] = LongDivide(0, boot["DX"], boot["AX"], boot["BX"], 16)[1]
    /\ registers["DX"] = LongDivide(0, boot["DX"], boot["AX"], boot["BX"], 16)[2]

\* AX and DX after IDIV BX are a quotient and a remainder of the dividend n
\* by d, the remainder smaller than d and of the sign of n
SignedQuotientStored(n, d, q, rm) ==
    /\ q * d + rm = n
    /\ (IF rm < 0 THEN 0 - rm ELSE rm) < (IF d < 0 THEN 0 - d ELSE d)
    /\ rm = 0 \/ (rm < 0 <=> n < 0)

(***************************************************************************)
(* C28: for every dividend DX:AX, those with DX >= 0x8000 among them, and  *)
(* every non-zero divisor d with floor(DX:AX / d) <= 0xFFFF, DIV leaves    *)
(* AX = floor(DX:AX / d) and DX = DX:AX mod d, the dividend read unsigned; *)
(* IDIV, when the signed quotient lies in -32768..32767, leaves in AX the  *)
(* quotient truncated toward zero and in DX the remainder with the sign of *)
(* the dividend.                                                           *)
(***************************************************************************)
C28_DivideQuotientRemainder ==
    /\ (DivStep /\ boot["BX"] # 0 /\ boot["DX"] < boot["BX"]) => UnsignedQuotientStored
    /\ (IdivStep /\ boot["BX"] # 0
            /\ SignedQuotientFits(SignedDividend, Signed16(boot["BX"]))) =>
                SignedQuotientStored(SignedDividend, Signed16(boot["BX"]),
                                     Signed16(registers["AX"]), Signed16(registers["DX"]))

\* a step of the shift group on a word: its extension, its count (1 for 0xD1,
\* CL for 0xD3), and its operand (AX, or the word at DS:0x0200) before and after
ShiftStep == call.op = "step" /\ call.a[1] \in {209, 211}
ShiftExtension == (call.a[2] \div 8) % 8
ShiftCount == IF call.a[1] = 209 THEN 1 ELSE boot["CX"] % 256
WordAt(m, x) == MemGet(m, x) + 256 * MemGet(m, x + 1)
OperandBefore ==
    IF call.a[2] >= 192 THEN boot["AX"] ELSE WordAt(UnitMemory, UnitOperandOffset)
OperandAfter ==
    IF call.a[2] >= 192 THEN registers["AX"] ELSE WordAt(memory, UnitOperandOffset)

\* v shifted left n >= 1 times in 16 bits, and the last bit shifted out
ShiftedLeft(v, n) == IF n >= 16 THEN 0 ELSE (v % Pow2(16 - n)) * Pow2(n)
LastOutLeft(v, n) == IF n > 16 THEN 0 ELSE Bit(v, 16 - n)
\* v shifted right n >= 1 times with zero fill, and the last bit shifted out
ShiftedRight(v, n) == IF n >= 16 THEN 0 ELSE v \div Pow2(n)
LastOutRight(v, n) == IF n > 16 THEN 0 ELSE Bit(v, n - 1)

\* the operand holds res, CF is the bit out, ZF, SF and PF are those of res
ShiftOutcome(res, out) ==
    /\ OperandAfter = res
    /\ Flag(FLAGS.CF) <=> out = 1
    /\ ResultFlags(res)

(***************************************************************************)
(* C29: for every 16-bit v and count n >= 1 (1 for 0xD1, CL in 1..255 for  *)
(* 0xD3), SHL leaves v shifted left n times truncated to 16 bits and SHR   *)
(* leaves v shifted right n times with zero fill; CF is the bit shifted    *)
(* out by the last of the n iterations (the MSB for SHL, the LSB for SHR)  *)
(* and ZF, SF and PF are those of the result.                              *)
(***************************************************************************)
C29_ShiftLeftRight ==
    /\ (ShiftStep /\ ShiftExtension = 4 /\ ShiftCount >= 1) =>
            ShiftOutcome(ShiftedLeft(OperandBefore, ShiftCount),
                         LastOutLeft(OperandBefore, ShiftCount))
    /\ (ShiftStep /\ ShiftExtension = 5 /\ ShiftCount >= 1) =>
            ShiftOutcome(ShiftedRight(OperandBefore, ShiftCount),
                         LastOutRight(OperandBefore, ShiftCount))

\* SHL AX, CL with AX = 1 and CL = 16: AX is 0 and CF holds the bit that the
\* sixteenth iteration shifted out
C29_Witness ==
    /\ ShiftStep
    /\ call.a = <<211, 224>>
    /\ ShiftCount = 16
    /\ boot["AX"] = 1
    /\ registers["AX"] = 0
    /\ Flag(FLAGS.CF)
    /\ Flag(FLAGS.ZF)

\* a step of the shift group by CL with CL = 0
ZeroCountStep == ShiftStep /\ call.a[1] = 211 /\ boot["CX"] % 256 = 0

(***************************************************************************)
(* C30: with a count of 0 (0xD3 with CL = 0) each of ROL, ROR, RCL, RCR,   *)
(* SHL, SHR and SAR is a no-op: after the step the operand, register or    *)
(* memory word, holds its previous value and FLAGS is unchanged; only IP   *)
(* has advanced.                                                           *)
(***************************************************************************)
C30_ZeroCountIsNoOp ==
    (ZeroCountStep /\ ShiftExtension \in ShiftExtensions) =>
        /\ OperandAfter = OperandBefore
        /\ registers["FLAGS"] = boot["FLAGS"]
        /\ \A n \in RegNames16 \ {"IP"} : registers[n] = boot[n]
        /\ registers["IP"] = boot["IP"] + Len(call.a)
        /\ memory = LoadBytes(UnitMemory, boot["CS"], boot["IP"], call.a)

\* SAR of the word at DS:0x0200 by CL = 0 with CF, PF, AF and ZF set before:
\* the word is still 0xBEEF and FLAGS still 0x0055
C30_Witness ==
    /\ ZeroCountStep
    /\ call.a = <<211, 62, 0, 2>>
    /\ boot["FLAGS"] = 85
    /\ registers["FLAGS"] = 85
    /\ OperandAfter = 48879
    /\ registers["IP"] = 4

\* v shifted right n >= 1 times with bit 15 of v filling the vacated bits, and
\* the last bit shifted out
ShiftedRightSigned(v, n) ==
    IF n >= 16 THEN Bit(v, 15) * 65535
    ELSE (v \div Pow2(n)) + Bit(v, 15) * (65536 - Pow2(16 - n))
LastOutRightSigned(v, n) == IF n > 16 THEN Bit(v, 15) ELSE Bit(v, n - 1)

(***************************************************************************)
(* C31: for every 16-bit v and count n >= 1, SAR leaves the arithmetic     *)
(* right shift of v by n, bit 15 of v replicated into the vacated          *)
(* positions (so bit 15 of the result is bit 15 of v), sets CF to the last *)
(* LSB shifted out, sets OF = 0, and sets ZF, SF and PF from the result.   *)
(***************************************************************************)
C31_ShiftArithmeticRight ==
    (ShiftStep /\ ShiftExtension = 7 /\ ShiftCount >= 1) =>
        /\ ShiftOutcome(ShiftedRightSigned(OperandBefore, ShiftCount),
                        LastOutRightSigned(OperandBefore, ShiftCount))
        /\ Bit(OperandAfter, 15) = Bit(OperandBefore, 15)
        /\ ~Flag(FLAGS.OF)

\* SAR AX, 1 with AX = 0x8000 and CF, OF set before: AX = 0xC000, SF set,
\* CF and OF clear
C31_Witness ==
    /\ ShiftStep
    /\ call.a = <<209, 248>>
    /\ boot["AX"] = 32768
    /\ boot["FLAGS"] = 2049
    /\ registers["AX"] = 49152
    /\ Flag(FLAGS.SF)
    /\ ~Flag(FLAGS.CF)
    /\ ~Flag(FLAGS.OF)

\* the 17-bit quantity CF:operand before and after the step
CarryWordBefore == (IF FlagBefore(FLAGS.CF) THEN 65536 ELSE 0) + OperandBefore
CarryWordAfter == (IF Flag(FLAGS.CF) THEN 65536 ELSE 0) + OperandAfter

\* a 17-bit x rotated left and right by k in 0..16
RotatedLeft17(x, k) == (x % Pow2(17 - k)) * Pow2(k) + (x \div Pow2(17 - k))
RotatedRight17(x, k) == (x \div Pow2(k)) + (x % Pow2(k)) * Pow2(17 - k)

(***************************************************************************)
(* C32: RCL and RCR (extensions 2 and 3) rotate the 17-bit quantity made   *)
(* of CF and the operand: one RCL iteration gives ((v << 1) | CF) mod 2^16 *)
(* with CF the old bit 15, one RCR iteration gives (v >> 1) | (CF << 15)   *)
(* with CF the old bit 0, and a count of n applies the iteration n times,  *)
(* which is a rotation of the 17 bits by n mod 17.                         *)
(***************************************************************************)
C32_RotateThroughCarry ==
    /\ (ShiftStep /\ ShiftExtension = 2) =>
            /\ CarryWordAfter = RotatedLeft17(CarryWordBefore, ShiftCount % 17)
            /\ ShiftCount = 1 =>
                    /\ OperandAfter = ((2 * OperandBefore) % 65536)
                                        + (IF FlagBefore(FLAGS.CF) THEN 1 ELSE 0)
                    /\ Flag(FLAGS.CF) <=> Bit(OperandBefore, 15) = 1
    /\ (ShiftStep /\ ShiftExtension = 3) =>
            /\ CarryWordAfter = RotatedRight17(CarryWordBefore, ShiftCount % 17)
            /\ ShiftCount = 1 =>
                    /\ OperandAfter = (OperandBefore \div 2)
                                        + (IF FlagBefore(FLAGS.CF) THEN 32768 ELSE 0)
                    /\ Flag(FLAGS.CF) <=> Bit(OperandBefore, 0) = 1

\* RCL AX, 1 with AX = 0x0001 and CF = 1: AX = 0x0003 and CF = 0
C32_Witness ==
    /\ ShiftStep
    /\ call.a = <<209, 208>>
    /\ boot["AX"] = 1
    /\ FlagBefore(FLAGS.CF)
    /\ registers["AX"] = 3
    /\ ~Flag(FLAGS.CF)

\* a step of MUL BX or MUL word [0x0200], and its operand
MulStep == call.op = "step" /\ call.a[1] = 247 /\ (call.a[2] \div 8) % 8 = 4
MulOperand == IF call.a[2] >= 192 THEN boot["BX"] ELSE WordAt(UnitMemory, UnitOperandOffset)

\* hi:lo is the product a * m: hi:lo divided by m is a with nothing left
IsProduct(hi, lo, a, m) ==
    IF m = 0 THEN hi = 0 /\ lo = 0
    ELSE hi < m /\ LongDivide(0, hi, lo, m, 16) = <<a, 0>>

(***************************************************************************)
(* C33: for every 16-bit AX and operand m, MUL leaves DX:AX equal to the   *)
(* unsigned product AX * m (AX the low word, DX the high word), sets CF    *)
(* and OF both to 1 iff the resulting DX is not 0, and leaves ZF, SF, PF   *)
(* and AF unchanged.                                                       *)
(***************************************************************************)
C33_MultiplyUnsigned ==
    MulStep =>
        /\ IsProduct(registers["DX"], registers["AX"], boot["AX"], MulOperand)
        /\ Flag(FLAGS.CF) <=> registers["DX"] # 0
        /\ Flag(FLAGS.OF) <=> registers["DX"] # 0
        /\ \A f \in {FLAGS.ZF, FLAGS.SF, FLAGS.PF, FLAGS.AF} : Flag(f) <=> FlagBefore(f)

\* 0xFFFF * 0xFFFF = 0xFFFE0001 with ZF, PF, AF set before: DX = 0xFFFE,
\* AX = 1, CF and OF set, ZF still set
C33_Witness ==
    /\ MulStep
    /\ boot["AX"] = 65535
    /\ MulOperand = 65535
    /\ boot["FLAGS"] = 85
    /\ registers["DX"] = 65534
    /\ registers["AX"] = 1
    /\ Flag(FLAGS.CF) /\ Flag(FLAGS.OF) /\ Flag(FLAGS.ZF)

\* a 16-bit v rotated left and right by k in 0..15
RotatedLeft16(v, k) == (v % Pow2(16 - k)) * Pow2(k) + (v \div Pow2(16 - k))
RotatedRight16(v, k) == (v \div Pow2(k)) + (v % Pow2(k)) * Pow2(16 - k)

\* ZF, SF and PF are as before the step
ResultFlagsKept == \A f \in {FLAGS.ZF, FLAGS.SF, FLAGS.PF} : Flag(f) <=> FlagBefore(f)

(***************************************************************************)
(* C34: for every 16-bit v and count n >= 1, ROL and ROR leave v rotated   *)
(* by n positions within 16 bits, CF taking no part in the rotation, set   *)
(* CF to the last bit that wrapped around (the final bit 0 of the result   *)
(* for ROL, the final bit 15 for ROR), and leave ZF, SF and PF unchanged.  *)
(***************************************************************************)
C34_RotateLeftRight ==
    /\ (ShiftStep /\ ShiftExtension = 0 /\ ShiftCount >= 1) =>
            /\ OperandAfter = RotatedLeft16(OperandBefore, ShiftCount % 16)
            /\ Flag(FLAGS.CF) <=> Bit(OperandAfter, 0) = 1
            /\ ResultFlagsKept
    /\ (ShiftStep /\ ShiftExtension = 1 /\ ShiftCount >= 1) =>
            /\ OperandAfter = RotatedRight16(OperandBefore, ShiftCount % 16)
            /\ Flag(FLAGS.CF) <=> Bit(OperandAfter, 15) = 1
            /\ ResultFlagsKept

\* ROL AX, CL with AX = 0x8000, CL = 17 and ZF set before: AX = 0x0001, CF
\* set, ZF still set
C34_Witness ==
    /\ ShiftStep
    /\ call.a = <<211, 192>>
    /\ ShiftCount = 17
    /\ boot["AX"] = 32768
    /\ boot["FLAGS"] = 85
    /\ registers["AX"] = 1
    /\ Flag(FLAGS.CF)
    /\ Flag(FLAGS.ZF)

\* a step of JC, JNC, JE or JNE, whether its condition held before the step,
\* and its displacement as a signed number
JccStep == call.op = "step" /\ call.a[1] \in {114, 115, 116, 117}
JccHolds ==
    CASE call.a[1] = 116 -> FlagBefore(FLAGS.ZF)
      [] call.a[1] = 117 -> ~FlagBefore(FLAGS.ZF)
      [] call.a[1] = 114 -> FlagBefore(FLAGS.CF)
      [] call.a[1] = 115 -> ~FlagBefore(FLAGS.CF)
Signed8(b) == IF b >= 128 THEN b - 256 ELSE b

\* the step wrote nothing but IP: every other register, the flags, halted and
\* the memory holding the instruction are as before
OnlyIPMoved ==
    /\ \A n \in RegNames16 \ {"IP"} : registers[n] = boot[n]
    /\ memory = LoadBytes(UnitMemory, boot["CS"], boot["IP"], call.a)
    /\ ~halted

(***************************************************************************)
(* C35: for the short jumps 0x74 (JE), 0x75 (JNE), 0x72 (JC), 0x73 (JNC)   *)
(* at IP = p with displacement byte d, after the step                      *)
(* IP = (p + 2 + signext8(d)) mod 2^16 if the condition holds (ZF = 1,     *)
(* ZF = 0, CF = 1, CF = 0) and IP = (p + 2) mod 2^16 otherwise; no other   *)
(* register, no flag and no memory byte changes.                           *)
(***************************************************************************)
C35_ShortConditionalJump ==
    JccStep =>
        /\ registers["IP"] = IF JccHolds
                             THEN (boot["IP"] + 2 + Signed8(call.a[2])) % 65536
                             ELSE (boot["IP"] + 2) % 65536
        /\ OnlyIPMoved

\* JE -128 at IP = 0 with ZF set: IP = 0xFF82
C35_Witness ==
    /\ JccStep
    /\ call.a = <<116, 128>>
    /\ boot["IP"] = 0
    /\ FlagBefore(FLAGS.ZF)
    /\ registers["IP"] = 65410

\* ---- CALL rel16 and RET ----
\* the address of the instruction after the CALL at boot's IP
ReturnAddress == Mask16(boot["IP"] + 3)
\* the word at SS:SP of registers r in memory m, its high byte at offset SP + 1
\* of the same segment
StackWord(r, m) ==
    MemGet(m, PhysicalAddress(r["SS"], r["SP"]))
        + 256 * MemGet(m, PhysicalAddress(r["SS"], r["SP"] + 1))
\* what the CPU sees when it steps at a RET written at CS:IP
RetMemory == LoadBytes(memory, registers["CS"], registers["IP"], <<195>>)
CallTaken == call.op = "none" /\ call'.op = "step" /\ call'.a[1] = 232
RetTaken == CallStepped /\ call'.op = "ret"
StackAsCallLeftIt ==
    /\ registers["SP"] = Mask16(boot["SP"] - 2)
    /\ StackWord(registers, RetMemory) = ReturnAddress

\* C36: CALL rel16 (0xE8) at IP = p pushes (p + 3) mod 2^16 and sets IP to
\* (p + 3 + signext16(disp)) mod 2^16; RET (0xC3) sets IP to the word at SS:SP and
\* adds 2 to SP; so after a CALL, whatever steps ran in between, a RET that finds
\* SP and the two pushed bytes as the CALL left them resumes at p + 3 with SP equal
\* to its value before the CALL.
C36_CallReturn ==
    [][/\ CallTaken =>
            /\ registers'["SP"] = Mask16(boot'["SP"] - 2)
            /\ StackWord(registers', memory') = Mask16(boot'["IP"] + 3)
            /\ registers'["IP"] =
                 (boot'["IP"] + 3 + Signed16(call'.a[2] + 256 * call'.a[3])) % 65536
       /\ RetTaken =>
            /\ registers'["IP"] = StackWord(registers, RetMemory)
            /\ registers'["SP"] = Mask16(registers["SP"] + 2)
       /\ (RetTaken /\ StackAsCallLeftIt) =>
            /\ registers'["IP"] = ReturnAddress
            /\ registers'["SP"] = boot["SP"]]_vars

\* CALL -3 at IP = 0xFFFE with SP = 1, then PUSH AX and POP CX, then RET: back at
\* IP = 1 with SP = 1
C36_Witness ==
    /\ call.op = "ret"
    /\ call.a = <<232, 253, 255>>
    /\ steps = 2
    /\ boot["IP"] = 65534
    /\ boot["SP"] = 1
    /\ boot["AX"] = 4660
    /\ registers["CX"] = 4660
    /\ registers["AX"] = 4660
    /\ registers["SP"] = 1
    /\ registers["IP"] = 1

\* ---- resolveEffectiveAddress ----
EaCall == call.op = "resolveEffectiveAddress"
EaMod == call.a[1]
EaRm == call.a[2]
\* the base the 8086 addressing table gives for rm, from the registers before the call
BaseOf(rm) ==
    CASE rm = 0 -> boot["BX"] + boot["SI"]
      [] rm = 1 -> boot["BX"] + boot["DI"]
      [] rm = 2 -> boot["BP"] + boot["SI"]
      [] rm = 3 -> boot["BP"] + boot["DI"]
      [] rm = 4 -> boot["SI"]
      [] rm = 5 -> boot["DI"]
      [] rm = 6 -> boot["BP"]
      [] rm = 7 -> boot["BX"]
\* the displacement read from the bytes at CS:IP, and how many of them it takes
DisplacementOf(mod, bytes) ==
    CASE mod = 0 -> 0
      [] mod = 1 -> Signed8(bytes[1])
      [] mod = 2 -> bytes[1] + 256 * bytes[2]
DisplacementBytes(mod, rm) ==
    IF mod = 0 THEN (IF rm = 6 THEN 2 ELSE 0) ELSE mod
OffsetOf(mod, rm, bytes) ==
    IF mod = 0 /\ rm = 6 THEN bytes[1] + 256 * bytes[2]
    ELSE (BaseOf(rm) + DisplacementOf(mod, bytes)) % 65536
SegmentOf(mod, rm) ==
    IF rm \in {2, 3} \/ (rm = 6 /\ mod # 0) THEN "SS" ELSE "DS"

\* C37: for mod in 0..2 and rm in 0..7, resolveEffectiveAddress returns
\* offset = (base(rm) + displacement) mod 2^16, the displacement none for mod = 0,
\* a sign-extended byte for mod = 1 and a word for mod = 2, taking 0, 1 or 2 bytes
\* at CS:IP, except that mod = 0, rm = 6 yields the fetched direct address; the
\* segment is SS exactly when the base uses BP, DS otherwise.
C37_EffectiveAddress ==
    EaCall =>
        /\ call.ret.offset = OffsetOf(EaMod, EaRm, call.b)
        /\ call.ret.segment = SegmentOf(EaMod, EaRm)
        /\ registers["IP"] = (boot["IP"] + DisplacementBytes(EaMod, EaRm)) % 65536
        /\ \A n \in RegNames16 \ {"IP"} : registers[n] = boot[n]

\* [BP + DI - 128] with BP = 4, DI = 2 and BX = 0: offset 0xFF86 in SS, one byte taken
C37_Witness ==
    /\ EaCall
    /\ call.a = <<1, 3>>
    /\ call.b = <<128, 255>>
    /\ boot["BP"] = 4
    /\ boot["DI"] = 2
    /\ call.ret.offset = 65414
    /\ call.ret.segment = "SS"
    /\ registers["IP"] = 1

\* ---- LEA ----
LeaStep == call.op = "step" /\ call.a[1] = 141
LeaMod == call.a[2] \div 64
LeaReg == RegisterOrder[((call.a[2] \div 8) % 8) + 1]
LeaRm == call.a[2] % 8
\* the bytes after the ModR/M byte, two at least
LeaBytes == SubSeq(call.a, 3, Len(call.a)) \o <<0, 0>>
\* the registers the same step leaves when memory holds the instruction and nothing else
LeaFromEmptyMemory ==
    step(Cpu(boot, LoadBytes(NewMemory, boot["CS"], boot["IP"], call.a), FALSE, FALSE)).registers

\* C38: LEA (0x8D) with mod != 3 writes the effective-address offset into the
\* register the reg field selects, and neither reads nor writes a memory byte
\* other than the instruction bytes it fetches; with mod = 3 it changes no
\* register except IP; FLAGS are unchanged in both cases.
C38_LeaWritesOffsetOnly ==
    LeaStep =>
        /\ LeaMod # 3 => registers[LeaReg] = OffsetOf(LeaMod, LeaRm, LeaBytes)
        /\ LeaMod = 3 => \A n \in RegNames16 \ {"IP"} : registers[n] = boot[n]
        /\ registers["FLAGS"] = boot["FLAGS"]
        /\ memory = LoadBytes(UnitMemory, boot["CS"], boot["IP"], call.a)
        /\ registers = LeaFromEmptyMemory

\* LEA AX, [0200] with AX = 0x1234 and 0xBEEF at DS:0200: AX = 0x0200
C38_Witness ==
    /\ LeaStep
    /\ call.a = <<141, 6>> \o UnitOperand
    /\ boot["AX"] = 4660
    /\ WordAt(memory, UnitOperandOffset) = 48879
    /\ registers["AX"] = UnitOperandOffset
    /\ registers["IP"] = 4

\* ---- jumps and their labels in machineCode ----
\* the bytes pass2 pushed for line n of a program that assembled
EmittedFor(n) == pass2Line(parsed[n], symbolTable, SizesBefore(n)).bytes
\* the index in machineCode, from 0, of the first byte pushed for line n
EmittedBefore(n) == SeqSum([i \in 1..(n - 1) |-> Len(EmittedFor(i))])
IsJumpLine(n) ==
    /\ Truthy(parsed[n].mnemonic)
    /\ HasEntry(KeyOf(parsed[n]))
    /\ instructionMap[KeyOf(parsed[n])].relative
\* the line that defines the label of the jump on line n: the last one, if several do
LabelLineOf(n) ==
    CHOOSE i \in 1..Len(parsed) :
        /\ parsed[i].label = parsed[n].operands[1]
        /\ \A j \in (i + 1)..Len(parsed) : parsed[j].label # parsed[n].operands[1]
InstructionAtOrAfter(n) == \E i \in n..Len(parsed) : Truthy(parsed[i].mnemonic)
\* the signed displacement in the bytes of the jump on line n
EmittedDisplacement(n) ==
    IF Len(EmittedFor(n)) = 2
    THEN Signed8(machineCode[EmittedBefore(n) + 2])
    ELSE Signed16(machineCode[EmittedBefore(n) + 2] + 256 * machineCode[EmittedBefore(n) + 3])

\* C39: in the machineCode of a program that assembled, every relative jump or
\* call lands on its label: the index just past the jump's bytes plus the signed
\* displacement emitted for it is the index of the first byte emitted for the
\* first instruction at or after the label's line, whatever lies in between.
C39_JumpsLandOnLabels ==
    phase = "returned" =>
        \A n \in 1..Len(parsed) :
            (IsJumpLine(n) /\ InstructionAtOrAfter(LabelLineOf(n)))
                => EmittedBefore(n) + Len(EmittedFor(n)) + EmittedDisplacement(n)
                       = EmittedBefore(LabelLineOf(n))

\* ---- division traps ----
\* the step ran DIV BX or IDIV BX with BX = 0
ZeroDivisorStep == (DivStep \/ IdivStep) /\ boot["BX"] = 0
\* the step ran IDIV BX with a quotient outside -32768..32767
QuotientRangeStep ==
    /\ IdivStep
    /\ boot["BX"] # 0
    /\ ~SignedQuotientFits(SignedDividend, Signed16(boot["BX"]))

====
